---- MODULE Spec2Model ----
(***************************************************************************)
(* Transcript acquisition of the YouTube-to-article tool:                  *)
(* video_pipeline.fetch_transcript and the strategies, parsers and         *)
(* timestamp codecs it relies on.                                          *)
(*                                                                         *)
(* Conventions.  A Python str is a sequence of one-character strings; an   *)
(* HTML character reference such as "&#10;" is held as one element until   *)
(* html.unescape replaces it.  A Python float that denotes a time is held  *)
(* as an integer number of milliseconds (1.5 s is 1500), so seconds are    *)
(* multiples of Ms.  A call that may raise yields a record with a tag:     *)
(* [tag |-> "ok", val |-> v] or [tag |-> "raise", err |-> e].              *)
(***************************************************************************)
EXTENDS Integers, Sequences, FiniteSets, TLC

VARIABLES
    pc,            \* position inside fetch_transcript
    preferred_langs,
    youtube_url,
    exc,           \* the exception caught at video_pipeline.py:66
    calls,         \* the strategies invoked and what each yielded, in order
    raw_segments,  \* what the strategy at hand obtained from its service
    tracks,        \* ranked caption-track candidates of the scraped strategy
    track_idx,     \* position of the for-loop at video_pipeline.py:135
    downloads,     \* indexes of the candidates whose download was started
    result,        \* outcome of fetch_transcript
    ts_in,         \* argument handed to the strict codec
    ts_out,        \* what the strict codec did with it
    args,          \* arguments of the function applied on its own
    ret,           \* what that function did with them
    run            \* run_pipeline: its position, its url, the steps it took

vars == <<pc, preferred_langs, youtube_url, exc, calls, raw_segments, tracks,
          track_idx, downloads, result, ts_in, ts_out, args, ret, run>>

(***************************************************************************)
(* Bounds of the model.                                                    *)
(***************************************************************************)
MaxItems == 2      \* longest raw list a service, track or response carries
MaxTracks == 1     \* most caption tracks per origin in the extracted info
MaxTsLen == 3      \* longest string handed to the strict codec

Ms == 1000         \* milliseconds per second: the unit of every time value

(***************************************************************************)
(* Python str helpers.                                                     *)
(***************************************************************************)
None == "<None>"

Digits == {"0", "1", "2", "3", "4", "5", "6", "7", "8", "9"}

Whitespace == {" ", "\n", "\t", "\r"}

DigitVal(c) ==
    CASE c = "0" -> 0 [] c = "1" -> 1 [] c = "2" -> 2 [] c = "3" -> 3
      [] c = "4" -> 4 [] c = "5" -> 5 [] c = "6" -> 6 [] c = "7" -> 7
      [] c = "8" -> 8 [] c = "9" -> 9

Ok(v) == [tag |-> "ok", val |-> v]

Raise(e) == [tag |-> "raise", err |-> e]

\* str.isdigit() on the characters of the model's alphabets
IsDigitStr(s) == Len(s) > 0 /\ \A i \in 1..Len(s) : s[i] \in Digits

RECURSIVE DigitsToNat(_)
DigitsToNat(s) ==
    IF s = <<>> THEN 0
    ELSE 10 * DigitsToNat(SubSeq(s, 1, Len(s) - 1)) + DigitVal(s[Len(s)])

RECURSIVE LStrip(_)
LStrip(s) ==
    IF s # <<>> /\ Head(s) \in Whitespace THEN LStrip(Tail(s)) ELSE s

RECURSIVE RStrip(_)
RStrip(s) ==
    IF s # <<>> /\ s[Len(s)] \in Whitespace
    THEN RStrip(SubSeq(s, 1, Len(s) - 1)) ELSE s

\* str.strip()
Strip(s) == RStrip(LStrip(s))

\* str.replace(old, new) for a single character old
RECURSIVE Replace(_, _, _)
Replace(s, old, new) ==
    IF s = <<>> THEN <<>>
    ELSE (IF Head(s) = old THEN new ELSE <<Head(s)>>) \o Replace(Tail(s), old, new)

\* position of the first occurrence of pat in s at or after i, 0 if none
RECURSIVE FindFrom(_, _, _)
FindFrom(s, pat, i) ==
    IF i + Len(pat) - 1 > Len(s) THEN 0
    ELSE IF SubSeq(s, i, i + Len(pat) - 1) = pat THEN i
    ELSE FindFrom(s, pat, i + 1)

Contains(s, pat) == FindFrom(s, pat, 1) > 0

\* str.split(sep) for a non-empty separator
RECURSIVE Split(_, _)
Split(s, sep) ==
    LET i == FindFrom(s, sep, 1) IN
    IF i = 0 THEN <<s>>
    ELSE <<SubSeq(s, 1, i - 1)>> \o Split(SubSeq(s, i + Len(sep), Len(s)), sep)

\* str.split(sep, 1)
Split1(s, sep) ==
    LET i == FindFrom(s, sep, 1) IN
    IF i = 0 THEN <<s>>
    ELSE <<SubSeq(s, 1, i - 1), SubSeq(s, i + Len(sep), Len(s))>>

\* " ".join(lines)
RECURSIVE JoinSpace(_)
JoinSpace(lines) ==
    IF lines = <<>> THEN <<>>
    ELSE IF Len(lines) = 1 THEN lines[1]
    ELSE lines[1] \o <<" ">> \o JoinSpace(Tail(lines))

\* "".join(parts)
RECURSIVE Concat(_)
Concat(parts) ==
    IF parts = <<>> THEN <<>> ELSE Head(parts) \o Concat(Tail(parts))

\* html.unescape: the character references of the model's alphabet
HtmlUnescape(s) ==
    [i \in 1..Len(s) |->
        CASE s[i] = "&#10;" -> "\n"
          [] s[i] = "&amp;" -> "&"
          [] OTHER -> s[i]]

\* re.sub(r"<[^>]+>", "", text)
RECURSIVE StripTags(_)
StripTags(s) ==
    IF s = <<>> THEN <<>>
    ELSE IF Head(s) = "<"
    THEN LET j == FindFrom(s, <<">">>, 2) IN
         IF j > 2 THEN StripTags(SubSeq(s, j + 1, Len(s)))
         ELSE <<"<">> \o StripTags(Tail(s))
    ELSE <<Head(s)>> \o StripTags(Tail(s))

\* all sequences over S of length at most n
RECURSIVE SeqsUpTo(_, _)
SeqsUpTo(S, n) ==
    IF n = 0 THEN {<<>>}
    ELSE LET shorter == SeqsUpTo(S, n - 1) IN
         shorter \cup {Append(s, x) : s \in {t \in shorter : Len(t) = n - 1}, x \in S}

(***************************************************************************)
(* Python int() and float() on a str.                                      *)
(***************************************************************************)
Unsigned(s) == IF s # <<>> /\ Head(s) \in {"+", "-"} THEN Tail(s) ELSE s

Sign(s) == IF s # <<>> /\ Head(s) = "-" THEN -1 ELSE 1

\* int() of a stripped str: an optional sign, then decimal digits
IntOfStripped(t) ==
    IF IsDigitStr(Unsigned(t)) THEN Ok(Sign(t) * DigitsToNat(Unsigned(t)))
    ELSE Raise("ValueError")

\* int(s)
PyInt(s) == IntOfStripped(Strip(s))

\* the fraction digits of a decimal literal, in milliseconds
FracDigit(f, i) == IF i <= Len(f) THEN DigitVal(f[i]) ELSE 0

FracMs(f) == 100 * FracDigit(f, 1) + 10 * FracDigit(f, 2) + FracDigit(f, 3)

AllDigits(s) == \A i \in 1..Len(s) : s[i] \in Digits

\* float() of an unsigned literal split at its point: digits with an optional
\* fraction, or nan, or inf (tag "nonfinite": values float() returns but
\* int() cannot convert)
FloatOfParts(sign, body, whole, frac) ==
    IF body = <<"n", "a", "n">> THEN [tag |-> "nonfinite", val |-> "nan"]
    ELSE IF body = <<"i", "n", "f">> THEN [tag |-> "nonfinite", val |-> "inf"]
    ELSE IF whole \o frac # <<>> /\ AllDigits(whole) /\ AllDigits(frac)
    THEN Ok(sign * (DigitsToNat(whole) * Ms + FracMs(frac)))
    ELSE Raise("ValueError")

FloatOfBody(sign, body, dot) ==
    FloatOfParts(sign, body,
                 IF dot = 0 THEN body ELSE SubSeq(body, 1, dot - 1),
                 IF dot = 0 THEN <<>> ELSE SubSeq(body, dot + 1, Len(body)))

FloatOfStripped(t) ==
    FloatOfBody(Sign(t), Unsigned(t), FindFrom(Unsigned(t), <<".">>, 1))

\* float(s), in milliseconds
PyFloat(s) == FloatOfStripped(Strip(s))

\* audio_transcriber._is_number
_is_number(value) == PyFloat(value).tag # "raise"

\* int(f) of a float: truncation toward zero, in whole seconds
TruncToSeconds(f) ==
    IF f.tag = "raise" THEN f
    ELSE IF f.tag = "nonfinite"
    THEN Raise(IF f.val = "nan" THEN "ValueError" ELSE "OverflowError")
    ELSE Ok(IF f.val >= 0 THEN f.val \div Ms ELSE -((-f.val) \div Ms))

\* int(float(s))
PyIntOfFloat(s) == TruncToSeconds(PyFloat(s))

(***************************************************************************)
(* Timestamp codecs.                                                       *)
(***************************************************************************)
\* video_pipeline.py:330-332
StrictMinSec(minute, second) ==
    IF minute.tag = "raise" \/ second.tag = "raise" THEN Raise("ValueError")
    ELSE Ok((minute.val * 60 + second.val) * Ms)

\* a three-field clock read as if it had no hour field
StrictHourMinSec_NoHours(hour, minute, second) ==
    IF hour.tag = "raise" \/ minute.tag = "raise" \/ second.tag = "raise"
    THEN Raise("ValueError")
    ELSE Ok((minute.val * 60 + second.val) * Ms)

\* video_pipeline.py:333-335
StrictHourMinSec(hour, minute, second) ==
    IF hour.tag = "raise" \/ minute.tag = "raise" \/ second.tag = "raise"
    THEN Raise("ValueError")
    ELSE Ok((hour.val * 3600 + minute.val * 60 + second.val) * Ms)

\* video_pipeline.py:337-341: re.match(r"^(\d+)(?:\.\d+)?$", raw) on a str
\* that is not all digits; the fraction is discarded
StrictDecimal(raw, dot) ==
    IF /\ dot > 1
       /\ IsDigitStr(SubSeq(raw, 1, dot - 1))
       /\ IsDigitStr(SubSeq(raw, dot + 1, Len(raw)))
    THEN Ok(DigitsToNat(SubSeq(raw, 1, dot - 1)) * Ms)
    ELSE Raise("ValueError")

\* video_pipeline.py:329-341
StrictFields(raw, parts) ==
    IF Len(parts) = 2 THEN StrictMinSec(PyInt(parts[1]), PyInt(parts[2]))
    ELSE IF Len(parts) = 3
    THEN StrictHourMinSec(PyInt(parts[1]), PyInt(parts[2]), PyInt(parts[3]))
    ELSE StrictDecimal(raw, FindFrom(raw, <<".">>, 1))

\* video_pipeline.py:323-341
StrictStripped(raw) ==
    IF raw = <<>> THEN Ok(0)
    ELSE IF IsDigitStr(raw) THEN Ok(DigitsToNat(raw) * Ms)
    ELSE StrictFields(raw, Split(raw, <<":">>))

\* video_pipeline.parse_timestamp_to_seconds on a str: the strict codec
parse_timestamp_to_seconds(timestamp) == StrictStripped(Strip(timestamp))

IsDigitAt(s, i) == i >= 1 /\ i <= Len(s) /\ s[i] \in Digits

\* ":\d{2}" at position i
ColonTwoDigits(s, i) ==
    i >= 1 /\ i <= Len(s) /\ s[i] = ":" /\ IsDigitAt(s, i + 1) /\ IsDigitAt(s, i + 2)

\* length of the match of (\d{1,2}:\d{2}:\d{2}|\d{1,2}:\d{2}) starting at i, 0 if
\* none: the first alternative first, the greedy two-digit lead first
ClockMatchLen(s, i) ==
    IF IsDigitAt(s, i) /\ IsDigitAt(s, i + 1)
       /\ ColonTwoDigits(s, i + 2) /\ ColonTwoDigits(s, i + 5) THEN 8
    ELSE IF IsDigitAt(s, i) /\ ColonTwoDigits(s, i + 1) /\ ColonTwoDigits(s, i + 4) THEN 7
    ELSE IF IsDigitAt(s, i) /\ IsDigitAt(s, i + 1) /\ ColonTwoDigits(s, i + 2) THEN 5
    ELSE IF IsDigitAt(s, i) /\ ColonTwoDigits(s, i + 1) THEN 4
    ELSE 0

\* re.search of that pattern: group(1) of the leftmost match, or raw unchanged
RECURSIVE ClockSearch(_, _)
ClockSearch(raw, i) ==
    IF i > Len(raw) THEN raw
    ELSE IF ClockMatchLen(raw, i) > 0
    THEN SubSeq(raw, i, i + ClockMatchLen(raw, i) - 1)
    ELSE ClockSearch(raw, i + 1)

\* audio_transcriber.py:244-247
LenientMinSec(minute, second) ==
    IF minute.tag = "raise" THEN minute
    ELSE IF second.tag = "nonfinite" THEN second
    ELSE Ok(minute.val * 60 * Ms + second.val)

\* audio_transcriber.py:248-252
LenientHourMinSec(hour, minute, second) ==
    IF hour.tag = "raise" THEN hour
    ELSE IF minute.tag = "raise" THEN minute
    ELSE IF second.tag = "nonfinite" THEN second
    ELSE Ok((hour.val * 3600 + minute.val * 60) * Ms + second.val)

\* audio_transcriber.py:243-253
LenientFields(parts) ==
    IF Len(parts) = 2 /\ _is_number(parts[1]) /\ _is_number(parts[2])
    THEN LenientMinSec(PyIntOfFloat(parts[1]), PyFloat(parts[2]))
    ELSE IF Len(parts) = 3 /\ \A i \in 1..3 : _is_number(parts[i])
    THEN LenientHourMinSec(PyIntOfFloat(parts[1]), PyIntOfFloat(parts[2]),
                           PyFloat(parts[3]))
    ELSE Ok(0)

\* audio_transcriber.py:233-253
LenientStripped(raw) ==
    IF raw = <<>> THEN Ok(0)
    ELSE IF IsDigitStr(raw) THEN Ok(DigitsToNat(raw) * Ms)
    ELSE LenientFields(Split(ClockSearch(raw, 1), <<":">>))

\* audio_transcriber._parse_timestamp_to_seconds on a str: the lenient codec
_parse_timestamp_to_seconds(value) == LenientStripped(Strip(value))

(***************************************************************************)
(* Segments and the normalisation of raw items.                            *)
(***************************************************************************)
TranscriptSegment(start, duration, text) ==
    [start |-> start, duration |-> duration, text |-> text]

Max(a, b) == IF a >= b THEN a ELSE b

\* a normalisation that collapses newlines but forgets to trim
NormalizeText_Untrimmed(text) == Replace(text, "\n", <<" ">>)

\* str(text).replace("\n", " ").strip()
NormalizeText(text) == Strip(Replace(text, "\n", <<" ">>))

\* a raw item with text is kept with its start and duration as they are, one
\* without is dropped (video_pipeline.py:80-89 and :104-113)
SegmentOfItem(item, text) ==
    IF text = <<>> THEN <<>>
    ELSE <<TranscriptSegment(item.start, item.duration, text)>>

\* the loops at video_pipeline.py:79-89 and :101-113
RECURSIVE SegmentsOfItems(_)
SegmentsOfItems(items) ==
    IF items = <<>> THEN <<>>
    ELSE SegmentOfItem(Head(items), NormalizeText(Head(items).text))
         \o SegmentsOfItems(Tail(items))

(***************************************************************************)
(* Caption-track parsers.                                                  *)
(***************************************************************************)
\* JSON values of a millisecond field: a number, a string, or absent
NumV(n) == [t |-> "num", v |-> n, s |-> <<>>]

StrV(s) == [t |-> "str", v |-> 0, s |-> s]

NoneV == [t |-> "none", v |-> 0, s |-> <<>>]

\* float(s) / 1000.0 of a str field
MsOfFloat(f) == IF f.tag = "ok" THEN Ok(f.val \div Ms) ELSE f

\* float(x or 0) / 1000.0 for a millisecond field x
MsFieldToSeconds(x) ==
    IF x.t = "none" THEN Ok(0)
    ELSE IF x.t = "num" THEN Ok(x.v)
    ELSE IF x.s = <<>> THEN Ok(0)
    ELSE MsOfFloat(PyFloat(x.s))

\* max(0.0, x): max(0.0, nan) is 0.0
ClampSeconds(x) == IF x.tag = "ok" THEN Max(0, x.val) ELSE 0

\* video_pipeline.py:235-252 for one event: <<>> when it is skipped
Json3Segment(isdict, text, start_ms, duration_ms) ==
    IF ~isdict THEN Ok(<<>>)
    ELSE IF text = <<>> THEN Ok(<<>>)
    ELSE IF start_ms.tag = "raise" THEN start_ms
    ELSE IF duration_ms.tag = "raise" THEN duration_ms
    ELSE Ok(<<TranscriptSegment(ClampSeconds(start_ms), ClampSeconds(duration_ms), text)>>)

Json3Event(event) ==
    Json3Segment(event.isdict,
                 NormalizeText(HtmlUnescape(Concat(event.segs))),
                 MsFieldToSeconds(event.tStartMs),
                 MsFieldToSeconds(event.dDurationMs))

\* segments.append, unless the event or a later one raised
AppendParsed(first, rest) ==
    IF first.tag = "raise" THEN first
    ELSE IF rest.tag = "raise" THEN rest
    ELSE Ok(first.val \o rest.val)

\* the loop at video_pipeline.py:234-252
RECURSIVE Json3Events(_)
Json3Events(events) ==
    IF events = <<>> THEN Ok(<<>>)
    ELSE AppendParsed(Json3Event(Head(events)), Json3Events(Tail(events)))

\* video_pipeline._parse_json3_transcript on the decoded content
_parse_json3_transcript(content) ==
    IF content.json = "invalid" THEN Ok(<<>>)
    ELSE IF content.json # "object" THEN Raise("AttributeError")
    ELSE IF ~content.has_events THEN Ok(<<>>)
    ELSE Json3Events(content.events)

\* video_pipeline.py:298-301
VttMinSec(minute, second) ==
    IF minute.tag = "raise" THEN minute
    ELSE IF second.tag # "ok" THEN second
    ELSE Ok(minute.val * 60 * Ms + second.val)

\* video_pipeline.py:302-306
VttHourMinSec(hour, minute, second) ==
    IF hour.tag = "raise" THEN hour
    ELSE IF minute.tag = "raise" THEN minute
    ELSE IF second.tag # "ok" THEN second
    ELSE Ok((hour.val * 3600 + minute.val * 60) * Ms + second.val)

VttTimeFields(parts) ==
    IF Len(parts) = 2 THEN VttMinSec(PyInt(parts[1]), PyFloat(parts[2]))
    ELSE IF Len(parts) = 3
    THEN VttHourMinSec(PyInt(parts[1]), PyInt(parts[2]), PyFloat(parts[3]))
    ELSE Raise("ValueError")

\* video_pipeline._parse_vtt_time
_parse_vtt_time(value) == VttTimeFields(Split(Replace(value, ",", <<".">>), <<":">>))

\* [line.strip() for line in block.split("\n") if line.strip()]
RECURSIVE StrippedLines(_)
StrippedLines(block) ==
    IF block = <<>> THEN <<>>
    ELSE (IF Strip(Head(block)) = <<>> THEN <<>> ELSE <<Strip(Head(block))>>)
         \o StrippedLines(Tail(block))

Arrow == <<"-", "-", ">">>

\* video_pipeline.py:276-291: the cue once its times are parsed.  A nan
\* second gives nan, which max(0.0, ...) turns into 0.0; the tracks of the
\* model carry no inf
VttSegment(start, end, text) ==
    IF start.tag = "raise" \/ end.tag = "raise" THEN <<>>
    ELSE IF text = <<>> THEN <<>>
    ELSE IF start.tag # "ok" THEN <<TranscriptSegment(0, 0, text)>>
    ELSE IF end.tag # "ok" THEN <<TranscriptSegment(Max(0, start.val), 0, text)>>
    ELSE <<TranscriptSegment(Max(0, start.val), Max(0, end.val - start.val), text)>>

\* video_pipeline.py:273-281
VttCue(range, text_lines) ==
    VttSegment(_parse_vtt_time(Strip(range[1])),
               _parse_vtt_time(Split(Strip(range[2]), <<" ">>)[1]),
               NormalizeText(HtmlUnescape(StripTags(JoinSpace(text_lines)))))

\* video_pipeline.py:264-270
VttTimed(lines, time_idx) ==
    IF time_idx > Len(lines) THEN <<>>
    ELSE IF ~Contains(lines[time_idx], Arrow) THEN <<>>
    ELSE IF time_idx = Len(lines) THEN <<>>
    ELSE VttCue(Split1(lines[time_idx], Arrow), SubSeq(lines, time_idx + 1, Len(lines)))

\* the time range looked for on the first line only
VttLines_NoCueId(lines) ==
    IF lines = <<>> THEN <<>>
    ELSE VttTimed(lines, 1)

\* video_pipeline.py:261-263
VttLines(lines) ==
    IF lines = <<>> THEN <<>>
    ELSE VttTimed(lines, IF Contains(lines[1], Arrow) THEN 1 ELSE 2)

\* one block of the loop at video_pipeline.py:259-291: <<>> when skipped
VttBlock(block) == VttLines(StrippedLines(block))

\* video_pipeline._parse_vtt_transcript on the blocks re.split yields
RECURSIVE _parse_vtt_transcript(_)
_parse_vtt_transcript(blocks) ==
    IF blocks = <<>> THEN <<>>
    ELSE VttBlock(Head(blocks)) \o _parse_vtt_transcript(Tail(blocks))

(***************************************************************************)
(* Source selector.                                                        *)
(***************************************************************************)
DefaultLangs == <<"zh-Hans", "zh-CN", "zh", "en">>

\* ext_priority.get(ext, 99)
ExtPriority(ext) ==
    CASE ext = "json3" -> 0 [] ext = "vtt" -> 1 [] ext = "srv3" -> 2
      [] ext = "ttml" -> 3 [] ext = "xml" -> 4 [] OTHER -> 99

\* lang_order.get(lang, len(lang_order) + 1): the dict keeps the last index of
\* a repeated language, and len counts the distinct ones
LanguageScore(lang, langs) ==
    LET at == {i \in 1..Len(langs) : langs[i] = lang} IN
    IF at = {} THEN Cardinality({langs[i] : i \in 1..Len(langs)}) + 1
    ELSE (CHOOSE i \in at : \A j \in at : j <= i) - 1

\* the candidates of one origin, in the order the mapping yields them
RECURSIVE CandidatesOf(_, _, _)
CandidatesOf(source, source_priority, langs) ==
    IF source = <<>> THEN <<>>
    ELSE LET item == Head(source) IN
         (IF item.url = "" \/ item.ext = "" THEN <<>>
          ELSE <<[url |-> item.url, ext |-> item.ext,
                  language_score |-> LanguageScore(item.lang, langs),
                  source_priority |-> source_priority,
                  ext_priority |-> ExtPriority(item.ext)]>>)
         \o CandidatesOf(Tail(source), source_priority, langs)

\* a sort key that looks at the origin before the language
KeyLess_OriginFirst(a, b) ==
    \/ a.source_priority < b.source_priority
    \/ /\ a.source_priority = b.source_priority
       /\ \/ a.language_score < b.language_score
          \/ /\ a.language_score = b.language_score
             /\ a.ext_priority < b.ext_priority

\* the sort key of video_pipeline.py:176-182, compared as Python tuples
KeyLess(a, b) ==
    \/ a.language_score < b.language_score
    \/ /\ a.language_score = b.language_score
       /\ \/ a.source_priority < b.source_priority
          \/ /\ a.source_priority = b.source_priority
             /\ a.ext_priority < b.ext_priority

\* list.sort is stable: x goes after every element that is not greater
RECURSIVE InsertByKey(_, _)
InsertByKey(sorted, x) ==
    IF sorted = <<>> THEN <<x>>
    ELSE IF KeyLess(x, Head(sorted)) THEN <<x>> \o sorted
    ELSE <<Head(sorted)>> \o InsertByKey(Tail(sorted), x)

RECURSIVE SortByKey(_)
SortByKey(candidates) ==
    IF candidates = <<>> THEN <<>>
    ELSE InsertByKey(SortByKey(SubSeq(candidates, 1, Len(candidates) - 1)),
                     candidates[Len(candidates)])

\* video_pipeline._collect_caption_tracks
_collect_caption_tracks(info, langs) ==
    SortByKey(CandidatesOf(info.subtitles, 0, langs)
              \o CandidatesOf(info.automatic_captions, 1, langs))

\* video_pipeline._download_and_parse_caption_track, given what the download did
_download_and_parse_caption_track(track, download) ==
    IF track.url = "" THEN Ok(<<>>)
    ELSE IF download.tag = "raise" THEN Ok(<<>>)
    ELSE IF track.ext = "json3" THEN _parse_json3_transcript(download.val)
    ELSE IF track.ext = "vtt" THEN Ok(_parse_vtt_transcript(download.val))
    ELSE Ok(<<>>)

(***************************************************************************)
(* Model-transcription adapter.                                            *)
(***************************************************************************)
LastDuration == 8000   \* item["duration"] = 8.0

\* audio_transcriber.py:172-182 for one entry
PrependEntry(segment_text, start_seconds, rest) ==
    IF segment_text = <<>> THEN rest
    ELSE IF start_seconds.tag = "raise" THEN start_seconds
    ELSE IF rest.tag = "raise" THEN rest
    ELSE Ok(<<[start |-> start_seconds.val, duration |-> 0, text |-> segment_text]>>
            \o rest.val)

\* the loop at audio_transcriber.py:161-182
RECURSIVE ParsedEntries(_)
ParsedEntries(raw) ==
    IF raw = <<>> THEN Ok(<<>>)
    ELSE PrependEntry(NormalizeText(Head(raw).text),
                      _parse_timestamp_to_seconds(Head(raw).timestamp),
                      ParsedEntries(Tail(raw)))

RECURSIVE InsertByStart(_, _)
InsertByStart(sorted, x) ==
    IF sorted = <<>> THEN <<x>>
    ELSE IF x.start < Head(sorted).start THEN <<x>> \o sorted
    ELSE <<Head(sorted)>> \o InsertByStart(Tail(sorted), x)

\* parsed.sort(key=lambda item: item["start"])
RECURSIVE SortByStart(_)
SortByStart(parsed) ==
    IF parsed = <<>> THEN <<>>
    ELSE InsertByStart(SortByStart(SubSeq(parsed, 1, Len(parsed) - 1)),
                       parsed[Len(parsed)])

\* the back-fill at audio_transcriber.py:188-192
BackFill(parsed) ==
    [i \in 1..Len(parsed) |->
        [parsed[i] EXCEPT !.duration =
            IF i + 1 <= Len(parsed)
            THEN Max(0, parsed[i + 1].start - parsed[i].start)
            ELSE LastDuration]]

\* audio_transcriber.py:184-193
SortedAndFilled(parsed) ==
    IF parsed.tag = "raise" THEN parsed ELSE Ok(BackFill(SortByStart(parsed.val)))

\* audio_transcriber._parse_transcribe_response on the extracted payload
_parse_transcribe_response(response) ==
    IF response.payload # "segments" THEN Ok(<<>>)
    ELSE SortedAndFilled(ParsedEntries(response.entries))

\* audio_transcriber._transcribe_by_uri, given what generate_content did
_transcribe_by_uri(generated) ==
    IF generated.tag = "raise" THEN Ok(<<>>)
    ELSE _parse_transcribe_response(generated.val)

\* the except at audio_transcriber.py:93-94
CaughtAsNothing(parsed) == IF parsed.tag = "raise" THEN <<>> ELSE parsed.val

\* audio_transcriber._transcribe_by_uploaded_audio, given what the audio
\* download, the upload and generate_content did: every exception is caught
_transcribe_by_uploaded_audio(audio, uploaded, generated) ==
    IF audio.tag = "raise" \/ uploaded.tag = "raise" \/ generated.tag = "raise"
    THEN <<>>
    ELSE CaughtAsNothing(_parse_transcribe_response(generated.val))

(***************************************************************************)
(* What the services of fetch_transcript answer in the model.              *)
(***************************************************************************)
\* texts of raw items: blank, plain, with an inner newline, padded
RawTexts ==
    {<<" ", "\n">>, <<"a">>, <<"a", "\n", "b">>, <<"\n", "a", " ">>}

\* youtube_transcript_api reports offsets from the start of the video
PrimaryItems == [text : RawTexts, start : {0, 1000, 2000}, duration : {0, 2000}]

PrimaryErrors == {"TranscriptsDisabled"}

Event(tStartMs, dDurationMs, segs) ==
    [isdict |-> TRUE, tStartMs |-> tStartMs, dDurationMs |-> dDurationMs, segs |-> segs]

\* json3 events: well-formed, earlier and with a character reference, with
\* negative fields and padding, with a non-numeric tStartMs, without text
Json3EventSet ==
    {Event(NumV(1500), NumV(2500), <<<<"H", "e", "l">>, <<"l", "o">>>>),
     Event(NumV(500), NoneV, <<<<"a", "&#10;", "b">>>>),
     Event(NumV(-2000), NumV(-1000), <<<<" ", "a", "\n">>>>),
     Event(StrV(<<"a", "b", "c">>), NumV(0), <<<<"a">>>>),
     Event(NumV(0), NumV(1000), <<<<" ">>>>)}

Json3Content(json, has_events, events) ==
    [json |-> json, has_events |-> has_events, events |-> events]

\* what json.loads makes of a downloaded json3 track
Json3Contents ==
    {Json3Content("invalid", FALSE, <<>>), Json3Content("array", FALSE, <<>>),
     Json3Content("object", FALSE, <<>>)}
    \cup {Json3Content("object", TRUE, ev) : ev \in SeqsUpTo(Json3EventSet, MaxItems)}

\* VTT blocks: the header, a cue, an earlier cue with an id line whose end
\* precedes its start, a negative start with cue settings, tags only
VttBlockSet ==
    {<<<<"W", "E", "B", "V", "T", "T">>>>,
     <<<<"0", "0", ":", "0", "2", ".", "0", "0", "0", " ", "-", "-", ">", " ", "0", "0", ":", "0", "3", ".", "0", "0", "0">>, <<"H", "i", " ", "<", "b", ">", "w", "<", "/", "b", ">">>>>,
     <<<<"1">>, <<"0", "0", ":", "0", "0", ":", "0", "0", ",", "5", "0", "0", " ", "-", "-", ">", " ", "0", "0", ":", "0", "0", ":", "0", "0", ",", "1", "0", "0">>, <<" ", "a", "&#10;">>>>,
     <<<<"-", "1", ":", "0", "0", " ", "-", "-", ">", " ", "0", "0", ":", "0", "2", " ", "a", ":", "b">>, <<"a">>>>,
     <<<<"0", "0", ":", "0", "2", " ", "-", "-", ">", " ", "0", "0", ":", "0", "4">>, <<"<", "i", ">">>>>}

VttContents == SeqsUpTo(VttBlockSet, MaxItems)

\* caption descriptors of the extracted info; one has no url
TrackItems ==
    {[lang |-> "en", ext |-> "json3", url |-> "u1"],
     [lang |-> "de", ext |-> "vtt", url |-> "u2"],
     [lang |-> "en", ext |-> "srv3", url |-> "u3"],
     [lang |-> "de", ext |-> "json3", url |-> ""]}

\* what extract_info returns: a language has one descriptor list, so the
\* descriptors of one language are adjacent, as they are in every sequence of
\* at most two
Infos ==
    [subtitles : SeqsUpTo(TrackItems, MaxTracks),
     automatic_captions : SeqsUpTo(TrackItems, MaxTracks)]

\* the languages argument: absent, empty, or a list of its own
LanguageArgs == {None, <<>>, <<"de", "en">>}

\* the youtube_url argument
UrlArgs == {None, "", "https://youtu.be/abc123"}

\* timestamps of model entries: empty, seconds, a clock, a signed minute with
\* a one-digit second, garbage, and a piece float() accepts but int() does not
EntryTimestamps ==
    {<<>>, <<"7">>, <<"0", ":", "0", "5">>, <<"-", "5", ":", "3">>, <<"x">>, <<"n", "a", "n", ":", "1", "0">>}

Entries == [timestamp : EntryTimestamps, text : {<<"a">>, <<>>, <<" ", "b", "\n">>}]

Response(payload, entries) == [payload |-> payload, entries |-> entries]

\* what _extract_json_payload makes of the model's answer
Responses ==
    {Response("none", <<>>), Response("no_segments", <<>>)}
    \cup {Response("segments", en) : en \in SeqsUpTo(Entries, MaxItems)}

Generated == {Raise("APIError")} \cup {Ok(r) : r \in Responses}

(***************************************************************************)
(* fetch_transcript.                                                       *)
(***************************************************************************)
Unavailable == "Failed to fetch transcript."     \* video_pipeline.py:74-76

EmptyTranscript == "Transcript is empty."        \* video_pipeline.py:91

NoResult == [kind |-> "none", segments |-> <<>>, error |-> None, cause |-> None]

Returned(segments) ==
    [kind |-> "return", segments |-> segments, error |-> None, cause |-> None]

\* raise error from cause; cause is None for a bare raise
Raised(error, cause) ==
    [kind |-> "raise", segments |-> <<>>, error |-> error, cause |-> cause]

\* list(languages or ("zh-Hans", "zh-CN", "zh", "en"))
PreferredLangs(languages) ==
    IF languages = None \/ languages = <<>> THEN DefaultLangs ELSE languages

\* video_pipeline.py:90-92
ReturnUnlessEmpty(segments) ==
    IF segments = <<>> THEN Raised(EmptyTranscript, None) ELSE Returned(segments)

\* video_pipeline.py:78-92: the primary service answered with raw
PrimaryOutcome(raw) == ReturnUnlessEmpty(SegmentsOfItems(raw))

\* a guard that lets the generative strategy run without a source URL
WantsGemini_Always(url) == TRUE

\* video_pipeline.py:70: the generative strategy needs a source URL
WantsGemini(url) == url # None /\ url # ""

\* a fallback that returns whatever the scraped strategy gave, even nothing
ScrapedOutcome_Unchecked(fallback_segments, url, cause) ==
    [pc |-> "done", result |-> Returned(fallback_segments)]

\* a fallback that consults the generative strategy before looking at what
\* the scraped strategy gave
ScrapedOutcome_GeminiFirst(fallback_segments, url, cause) ==
    IF WantsGemini(url) THEN [pc |-> "gemini", result |-> NoResult]
    ELSE IF fallback_segments # <<>>
    THEN [pc |-> "done", result |-> Returned(fallback_segments)]
    ELSE [pc |-> "done", result |-> Raised(Unavailable, cause)]

\* video_pipeline.py:68-76 once the scraped strategy returned fallback_segments
ScrapedOutcome(fallback_segments, url, cause) ==
    IF fallback_segments # <<>>
    THEN [pc |-> "done", result |-> Returned(fallback_segments)]
    ELSE IF WantsGemini(url) THEN [pc |-> "gemini", result |-> NoResult]
    ELSE [pc |-> "done", result |-> Raised(Unavailable, cause)]

\* video_pipeline._fetch_transcript_via_gemini on what the adapter returned
_fetch_transcript_via_gemini(raw) ==
    IF raw = <<>> THEN <<>> ELSE SegmentsOfItems(raw)

\* video_pipeline.py:72-76
ReturnOrUnavailable(gemini_segments, cause) ==
    IF gemini_segments # <<>> THEN Returned(gemini_segments)
    ELSE Raised(Unavailable, cause)

\* video_pipeline.py:71-76 once the adapter returned raw
GeminiOutcome(raw, cause) ==
    ReturnOrUnavailable(_fetch_transcript_via_gemini(raw), cause)

\* an entry of calls: a strategy is called, or yields segments, nothing, an
\* empty result (the primary service) or an exception
Ev(what, strategy) == <<what, strategy>>

\* the entry for the outcome a strategy's result led to
Yield(outcome, strategy) ==
    Ev(IF outcome.kind = "return" THEN "segments"
       ELSE IF outcome.error = EmptyTranscript THEN "empty"
       ELSE "nothing", strategy)

\* run_pipeline before it is entered
NotRunning ==
    [pc |-> "idle", url |-> [hostname |-> <<>>, path |-> <<>>, query |-> <<>>],
     video_id |-> <<>>, steps |-> <<>>, error |-> None]

Init ==
    /\ pc = "idle"
    /\ preferred_langs = <<>>
    /\ youtube_url = None
    /\ exc = None
    /\ calls = <<>>
    /\ raw_segments = <<>>
    /\ tracks = <<>>
    /\ track_idx = 0
    /\ downloads = <<>>
    /\ result = NoResult
    /\ ts_in = <<>>
    /\ ts_out = [tag |-> "none"]
    /\ args = <<>>
    /\ ret = [tag |-> "none"]
    /\ run = NotRunning

\* fetch_transcript(video_id, languages, youtube_url) is entered
Call ==
    /\ pc = "idle"
    /\ \E languages \in LanguageArgs, url \in UrlArgs :
        /\ preferred_langs' = PreferredLangs(languages)
        /\ youtube_url' = url
    /\ pc' = "primary"
    /\ UNCHANGED <<exc, calls, raw_segments, tracks, track_idx, downloads, result,
                   ts_in, ts_out, args, ret, run>>

\* video_pipeline.py:62-66: api.fetch or to_raw_data raises
PrimaryRaises ==
    /\ pc = "primary"
    /\ \E e \in PrimaryErrors : exc' = e
    /\ calls' = calls \o <<Ev("call", "primary"), Ev("raise", "primary")>>
    /\ pc' = "ytdlp"
    /\ UNCHANGED <<preferred_langs, youtube_url, raw_segments, tracks, track_idx,
                   downloads, result, ts_in, ts_out, args, ret, run>>

\* video_pipeline.py:62-65 and 78-92: the primary service answers
PrimaryReturns ==
    /\ pc = "primary"
    /\ \E raw \in SeqsUpTo(PrimaryItems, MaxItems) :
        /\ raw_segments' = raw
        /\ result' = PrimaryOutcome(raw)
        /\ calls' = calls \o <<Ev("call", "primary"), Yield(PrimaryOutcome(raw), "primary")>>
    /\ pc' = "done"
    /\ UNCHANGED <<preferred_langs, youtube_url, exc, tracks, track_idx, downloads,
                   ts_in, ts_out, args, ret, run>>

\* video_pipeline.py:128-132 and 68-76: extract_info raises
YtdlpExtractRaises ==
    /\ pc = "ytdlp"
    /\ calls' = calls \o <<Ev("call", "ytdlp"), Ev("nothing", "ytdlp")>>
    /\ LET after == ScrapedOutcome(<<>>, youtube_url, exc) IN
        /\ pc' = after.pc
        /\ result' = after.result
    /\ UNCHANGED <<preferred_langs, youtube_url, exc, raw_segments, tracks, track_idx,
                   downloads, ts_in, ts_out, args, ret, run>>

\* video_pipeline.py:134-139 and 68-76 once the tracks are ranked: with no
\* candidate the loop at :135 is skipped and :139 returns []
Ranked(ranked, after) ==
    IF ranked = <<>>
    THEN /\ pc' = after.pc
         /\ result' = after.result
         /\ calls' = calls \o <<Ev("call", "ytdlp"), Ev("nothing", "ytdlp")>>
         /\ UNCHANGED <<tracks, track_idx>>
    ELSE /\ pc' = "track"
         /\ calls' = Append(calls, Ev("call", "ytdlp"))
         /\ tracks' = ranked
         /\ track_idx' = 1
         /\ UNCHANGED result

\* video_pipeline.py:128-134: extract_info answers and the tracks are ranked
YtdlpExtractReturns ==
    /\ pc = "ytdlp"
    /\ \E info \in Infos :
        Ranked(_collect_caption_tracks(info, preferred_langs),
               ScrapedOutcome(<<>>, youtube_url, exc))
    /\ UNCHANGED <<preferred_langs, youtube_url, exc, raw_segments, downloads,
                   ts_in, ts_out, args, ret, run>>

\* what _download_text may do for a track: raise, or hand over the content
DownloadsFor(track) ==
    {Raise("RuntimeError")}
    \cup (IF track.ext = "json3" THEN {Ok(c) : c \in Json3Contents}
          ELSE IF track.ext = "vtt" THEN {Ok(c) : c \in VttContents}
          ELSE {Ok(<<>>)})

\* video_pipeline.py:136-139 and 68-76 once a candidate is parsed: an
\* exception of the parser is caught nowhere; an empty parse moves on to the
\* next candidate, or to :139 after the last one, where the locals of
\* _fetch_transcript_via_ytdlp are gone
Attempted(download, parsed, last) ==
    IF parsed.tag = "raise"
    THEN /\ pc' = "done"
         /\ result' = Raised(parsed.err, None)
         /\ raw_segments' = download
         /\ downloads' = Append(downloads, track_idx)
         /\ calls' = Append(calls, Ev("raise", "ytdlp"))
         /\ UNCHANGED <<tracks, track_idx>>
    ELSE IF parsed.val = <<>> /\ ~last
    THEN /\ track_idx' = track_idx + 1
         /\ downloads' = Append(downloads, track_idx)
         /\ UNCHANGED <<pc, result, raw_segments, tracks, calls>>
    ELSE /\ pc' = ScrapedOutcome(parsed.val, youtube_url, exc).pc
         /\ result' = ScrapedOutcome(parsed.val, youtube_url, exc).result
         /\ raw_segments' = IF parsed.val # <<>> THEN download ELSE <<>>
         /\ tracks' = IF parsed.val # <<>> THEN tracks ELSE <<>>
         /\ track_idx' = IF parsed.val # <<>> THEN track_idx ELSE 0
         /\ downloads' = IF parsed.val # <<>> THEN Append(downloads, track_idx) ELSE <<>>
         /\ calls' = Append(calls, Ev(IF parsed.val # <<>> THEN "segments" ELSE "nothing",
                                      "ytdlp"))

\* one pass of the loop at video_pipeline.py:135-138
TrackAttempt ==
    /\ pc = "track"
    /\ track_idx <= Len(tracks)
    /\ \E download \in DownloadsFor(tracks[track_idx]) :
        Attempted(download,
                  _download_and_parse_caption_track(tracks[track_idx], download),
                  track_idx = Len(tracks))
    /\ UNCHANGED <<preferred_langs, youtube_url, exc, ts_in, ts_out, args, ret, run>>

\* what stops transcribe_video_audio_with_gemini before any model call
\* (audio_transcriber.py:26-37), or "ready"
GeminiSetups == {"disabled", "no_api_key", "no_model", "client_raises", "ready"}

\* audio_transcriber.py:26-44 and video_pipeline.py:71-76 once the URI attempt
\* is over: genai.Client and the parse at :71 are outside every try
TriedUri(setup, generated, segments) ==
    IF setup \in {"disabled", "no_api_key", "no_model"}
    THEN /\ pc' = "done"
         /\ result' = GeminiOutcome(<<>>, exc)
         /\ calls' = calls \o <<Ev("call", "gemini"), Ev("nothing", "gemini")>>
         /\ UNCHANGED raw_segments
    ELSE IF setup = "client_raises"
    THEN /\ pc' = "done"
         /\ result' = Raised("ClientError", None)
         /\ calls' = calls \o <<Ev("call", "gemini"), Ev("raise", "gemini")>>
         /\ UNCHANGED raw_segments
    ELSE IF segments.tag = "raise"
    THEN /\ pc' = "done"
         /\ result' = Raised(segments.err, None)
         /\ calls' = calls \o <<Ev("call", "gemini"), Ev("raise", "gemini")>>
         /\ raw_segments' = generated
    ELSE IF segments.val # <<>>
    THEN /\ pc' = "done"
         /\ result' = GeminiOutcome(segments.val, exc)
         /\ calls' = calls \o <<Ev("call", "gemini"),
                                 Yield(GeminiOutcome(segments.val, exc), "gemini")>>
         /\ raw_segments' = generated
    ELSE /\ pc' = "gemini_upload"
         /\ calls' = Append(calls, Ev("call", "gemini"))
         /\ UNCHANGED <<result, raw_segments>>

\* audio_transcriber.py:22-42: the adapter is called and tries the URI
GeminiByUri ==
    /\ pc = "gemini"
    /\ \E setup \in GeminiSetups, generated \in Generated :
        TriedUri(setup, generated, _transcribe_by_uri(generated))
    /\ UNCHANGED <<preferred_langs, youtube_url, exc, tracks, track_idx, downloads,
                   ts_in, ts_out, args, ret, run>>

\* what the steps of audio_transcriber.py:83-91 may do: the audio download
\* raises, the upload raises, or generate_content is reached
Uploads ==
    {<<Raise("DownloadError"), Raise("skipped"), Raise("skipped")>>,
     <<Ok("audio"), Raise("APIError"), Raise("skipped")>>}
    \cup {<<Ok("audio"), Ok("file"), g>> : g \in Generated}

\* video_pipeline.py:72-76 after the upload attempt
Uploaded(outcome) ==
    /\ result' = outcome
    /\ calls' = Append(calls, Yield(outcome, "gemini"))

\* audio_transcriber.py:44 and 74-100, then video_pipeline.py:71-76
GeminiByUpload ==
    /\ pc = "gemini_upload"
    /\ \E up \in Uploads :
        /\ raw_segments' = up
        /\ Uploaded(GeminiOutcome(_transcribe_by_uploaded_audio(up[1], up[2], up[3]), exc))
    /\ pc' = "done"
    /\ UNCHANGED <<preferred_langs, youtube_url, exc, tracks, track_idx,
                   downloads, ts_in, ts_out, args, ret, run>>

Next ==
    \/ Call
    \/ PrimaryRaises
    \/ PrimaryReturns
    \/ YtdlpExtractRaises
    \/ YtdlpExtractReturns
    \/ TrackAttempt
    \/ GeminiByUri
    \/ GeminiByUpload

Spec == Init /\ [][Next]_vars

(***************************************************************************)
(* The strict codec on its own: parse_timestamp_to_seconds is applied to   *)
(* every string over TsAlphabet of at most MaxTsLen characters.            *)
(***************************************************************************)
TsAlphabet == {"0", "1", "7", ":", ".", "-", " ", "x"}

StrictParse ==
    /\ ts_out.tag = "none"
    /\ \E s \in SeqsUpTo(TsAlphabet, MaxTsLen) :
        /\ ts_in' = s
        /\ ts_out' = parse_timestamp_to_seconds(s)
    /\ UNCHANGED <<pc, preferred_langs, youtube_url, exc, calls, raw_segments, tracks,
                   track_idx, downloads, result, args, ret, run>>

NextCodec == StrictParse

SpecCodec == Init /\ [][NextCodec]_vars

(***************************************************************************)
(* Properties of fetch_transcript.                                         *)
(***************************************************************************)
Has(ev) == \E i \in 1..Len(calls) : calls[i] = ev

IsCall(ev) == ev[1] = "call"

IsPrefix(a, b) == Len(a) <= Len(b) /\ a = SubSeq(b, 1, Len(a))

Fallbacks == {"ytdlp", "gemini"}

\* C1: the strategies are called in the order primary, scraped tracks,
\* generative, each at most once; once the primary service yielded segments
\* neither fallback is called; the generative strategy is called only after
\* the scraped one yielded nothing; and the first strategy that yields
\* segments ends the run with them.
C1_StrategyOrder ==
    /\ IsPrefix(SelectSeq(calls, IsCall),
                <<Ev("call", "primary"), Ev("call", "ytdlp"), Ev("call", "gemini")>>)
    /\ Has(Ev("segments", "primary")) =>
        /\ pc = "done"
        /\ \A f \in Fallbacks : ~Has(Ev("call", f))
    /\ \A i \in 1..Len(calls) :
        calls[i] = Ev("call", "gemini") =>
            \E j \in 1..(i - 1) : calls[j] = Ev("nothing", "ytdlp")
    /\ \A i \in 1..Len(calls) :
        calls[i][1] = "segments" =>
            i = Len(calls) /\ pc = "done" /\ result.kind = "return"

\* the primary service yielded segments and fetch_transcript returned them
C1_Witness ==
    /\ pc = "done"
    /\ calls = <<Ev("call", "primary"), Ev("segments", "primary")>>
    /\ result.kind = "return"

\* C2: when the primary service answers without error but nothing is left of
\* its answer, fetch_transcript goes on to the scraped-track strategy instead
\* of ending.
C2_EmptyPrimaryFallsThrough ==
    Has(Ev("empty", "primary")) => pc # "done" \/ Has(Ev("call", "ytdlp"))

\* C3: whenever no strategy produced segments (and none let an exception
\* out), fetch_transcript raises the transcript-unavailable error, with the
\* primary strategy's failure as its cause.
C3_ExhaustedCarriesPrimaryFailure ==
    (/\ pc = "done"
     /\ result.kind = "raise"
     /\ \A f \in Fallbacks : ~Has(Ev("raise", f)))
    => result.error = Unavailable /\ result.cause \in PrimaryErrors

\* C4: fetch_transcript never returns an empty list: it ends with at least
\* one segment or with an exception, and has no outcome before it ends.
C4_NeverReturnsEmpty ==
    IF pc = "done"
    THEN \/ result.kind = "return" /\ Len(result.segments) >= 1
         \/ result.kind = "raise"
    ELSE result = NoResult

\* a fallback strategy yielded nothing and fetch_transcript raised
C4_Witness ==
    /\ pc = "done"
    /\ Has(Ev("nothing", "ytdlp"))
    /\ Has(Ev("nothing", "gemini"))
    /\ result.kind = "raise"

\* C5: after the primary strategy failed, the only error fetch_transcript
\* raises is the transcript-unavailable error whose cause is that failure: no
\* failure inside a fallback strategy gets out.
C5_FallbackFailuresSwallowed ==
    (pc = "done" /\ Has(Ev("raise", "primary")) /\ result.kind = "raise")
    => result.error = Unavailable /\ result.cause = exc

\* C6: every returned segment sequence is sorted ascending by start.
C6_ReturnedSorted ==
    result.kind = "return" =>
        \A i \in 1..(Len(result.segments) - 1) :
            result.segments[i].start <= result.segments[i + 1].start

\* C7: every returned segment has a text that is non-empty, trimmed and
\* without a newline, so raw entries whose text normalises to nothing are
\* dropped.
C7_ReturnedTexts ==
    result.kind = "return" =>
        \A i \in 1..Len(result.segments) :
            LET text == result.segments[i].text IN
            /\ text # <<>>
            /\ text[1] \notin Whitespace
            /\ text[Len(text)] \notin Whitespace
            /\ \A k \in 1..Len(text) : text[k] # "\n"

\* the primary service answered with an item whose text normalises to
\* nothing and one whose text normalisation changes; the first was dropped
C7_Witness ==
    /\ exc = None
    /\ result.kind = "return"
    /\ Len(result.segments) < Len(raw_segments)
    /\ \E i \in 1..Len(raw_segments) :
        NormalizeText(raw_segments[i].text) \notin {<<>>, raw_segments[i].text}

\* C8: every returned segment has start >= 0 and duration >= 0.
C8_ReturnedNonNegative ==
    result.kind = "return" =>
        \A i \in 1..Len(result.segments) :
            result.segments[i].start >= 0 /\ result.segments[i].duration >= 0

\* C9: the generative strategy is called only when a source URL was given;
\* without one, once the primary and the scraped strategy yielded nothing,
\* fetch_transcript raises the transcript-unavailable error.
C9_GeminiOnlyWithUrl ==
    /\ Has(Ev("call", "gemini")) => youtube_url \notin {None, ""}
    /\ (youtube_url \in {None, ""} /\ Has(Ev("nothing", "ytdlp"))) =>
        /\ pc = "done"
        /\ result = Raised(Unavailable, exc)
        /\ exc \in PrimaryErrors

\* only a video id was given, the first two strategies yielded nothing
C9_Witness ==
    /\ youtube_url = None
    /\ Has(Ev("raise", "primary"))
    /\ Has(Ev("nothing", "ytdlp"))
    /\ pc = "done"

(***************************************************************************)
(* Properties of the strict codec.                                         *)
(***************************************************************************)
\* a digit string, MM:SS, HH:MM:SS or decimal seconds, once trimmed
AcceptedShape(raw) ==
    \/ IsDigitStr(raw)
    \/ /\ Len(Split(raw, <<":">>)) \in {2, 3}
       /\ \A i \in 1..Len(Split(raw, <<":">>)) : IsDigitStr(Split(raw, <<":">>)[i])
    \/ /\ Len(Split(raw, <<".">>)) = 2
       /\ \A i \in 1..2 : IsDigitStr(Split(raw, <<".">>)[i])

\* C10: the strict codec raises for every string that is not of an accepted
\* shape, the empty and the blank string included, and returns no value for
\* any of them.
C10_StrictRejectsOtherShapes ==
    (ts_out.tag # "none" /\ ~AcceptedShape(Strip(ts_in))) => ts_out.tag = "raise"

(***************************************************************************)
(* The lenient codec on its own: _parse_timestamp_to_seconds is applied to *)
(* the strings over TsAlphabet and to timestamps a model may write.        *)
(***************************************************************************)
\* str(value or ""): a piece float() accepts but int() does not, a nan
\* second, a clock inside a sentence, an hour of three digits, words
LenientTexts ==
    {<<"n", "a", "n", ":", "1", "0">>,
     <<"i", "n", "f", ":", "1", "0">>,
     <<"1", ":", "n", "a", "n">>,
     <<"a", "t", " ", "0", "1", ":", "0", "2", ":", "0", "3">>,
     <<"1", "0", "0", ":", "0", "0">>,
     <<"1", ":", "3", "0", ".", "5">>,
     <<"g", "a", "r", "b", "a", "g", "e">>}

LenientParse ==
    /\ ret.tag = "none"
    /\ \E s \in SeqsUpTo(TsAlphabet, MaxTsLen) \cup LenientTexts :
        /\ args' = s
        /\ ret' = _parse_timestamp_to_seconds(s)
    /\ UNCHANGED <<pc, preferred_langs, youtube_url, exc, calls, raw_segments, tracks,
                   track_idx, downloads, result, ts_in, ts_out, run>>

NextLenient == LenientParse

SpecLenient == Init /\ [][NextLenient]_vars

\* the pieces between the colons are two or three finite decimal numbers
FinitePieces(parts) ==
    Len(parts) \in {2, 3} /\ \A i \in 1..Len(parts) : PyFloat(parts[i]).tag = "ok"

\* a timestamp the lenient codec is meant to read: seconds in digits, a text
\* holding a clock, or numeric pieces between colons
TimestampLike(raw) ==
    \/ IsDigitStr(raw)
    \/ \E i \in 1..Len(raw) : ClockMatchLen(raw, i) > 0
    \/ FinitePieces(Split(raw, <<":">>))

\* C11: the lenient codec is total: it returns a number for every input,
\* never raises, and returns 0.0 for every input that is no timestamp.
C11_LenientTotal ==
    ret.tag # "none" =>
        /\ ret.tag = "ok"
        /\ ~TimestampLike(Strip(args)) => ret.val = 0

(***************************************************************************)
(* format_timestamp, and the strict codec applied to what it prints.       *)
(* A float is held as Ok(milliseconds), or with the tag "nonfinite".       *)
(***************************************************************************)
\* round(seconds): to the nearest integer, a tie to the even one
RoundHalfEven(ms) ==
    IF ms % Ms < Ms \div 2 THEN ms \div Ms
    ELSE IF ms % Ms > Ms \div 2 THEN ms \div Ms + 1
    ELSE IF (ms \div Ms) % 2 = 0 THEN ms \div Ms
    ELSE ms \div Ms + 1

\* str(n) for n >= 0
RECURSIVE NatToDigits(_)
NatToDigits(n) ==
    IF n < 10 THEN <<CHOOSE c \in Digits : DigitVal(c) = n>>
    ELSE Append(NatToDigits(n \div 10), CHOOSE c \in Digits : DigitVal(c) = n % 10)

\* f"{n:02d}"
Pad2(n) == IF n < 10 THEN <<"0">> \o NatToDigits(n) ELSE NatToDigits(n)

\* a clock that prints its fields as they are, without the leading zero
Clock_Unpadded(value) ==
    NatToDigits(value \div 3600) \o <<":">> \o NatToDigits((value % 3600) \div 60)
    \o <<":">> \o NatToDigits(value % 60)

\* video_pipeline.py:312-315
Clock(value) ==
    Pad2(value \div 3600) \o <<":">> \o Pad2((value % 3600) \div 60)
    \o <<":">> \o Pad2(value % 60)

\* video_pipeline.format_timestamp: int(round(seconds)) raises ValueError for
\* nan and OverflowError for an infinity
format_timestamp(seconds) ==
    IF seconds.tag = "raise" THEN seconds
    ELSE IF seconds.tag = "nonfinite"
    THEN Raise(IF seconds.val = "nan" THEN "ValueError" ELSE "OverflowError")
    ELSE Ok(Clock(Max(0, RoundHalfEven(seconds.val))))

\* ":".join(fields)
RECURSIVE JoinColon(_)
JoinColon(fields) ==
    IF Len(fields) = 1 THEN fields[1]
    ELSE fields[1] \o <<":">> \o JoinColon(Tail(fields))

\* the strict codec on a printed clock
Reparsed(text) == IF text.tag = "ok" THEN parse_timestamp_to_seconds(text.val) ELSE text

Printed(first, text) ==
    [tag |-> "roundtrip", first |-> first, text |-> text, again |-> Reparsed(text)]

\* parse, format, parse again
RoundTrip(first) == Printed(first, format_timestamp(first))

MaxFieldLen == 2   \* most digits of one field of a clock

FieldDigits == {"0", "1", "7"}

\* the numerals a field of a clock may hold
FieldTexts == SeqsUpTo(FieldDigits, MaxFieldLen) \ {<<>>}

MaxHours == 500     \* largest hour field: its milliseconds stay below 2^31

\* the numerals of an hour field
HourTexts == {f \in FieldTexts : DigitsToNat(f) <= MaxHours}

\* seconds in digits, MM:SS and HH:MM:SS, and a clock of 100 hours and more
ClockFields ==
    {<<f>> : f \in FieldTexts}
    \cup {<<m, sec>> : m \in FieldTexts, sec \in FieldTexts}
    \cup {<<h, m, sec>> : h \in HourTexts, m \in FieldTexts, sec \in FieldTexts}
    \cup {<<<<"1", "0", "0">>, <<"0", "0">>, <<"0", "1">>>>, <<<<"3", "6", "0", "0", "0", "0">>>>}

\* seconds format_timestamp is asked to print: whole, with a fraction, a tie,
\* negative, and the values that are no number
FormatInputs ==
    {Ok(0), Ok(1400), Ok(1500), Ok(2500), Ok(59600), Ok(3599500), Ok(-297000), Ok(-400),
     Ok(360000000), [tag |-> "nonfinite", val |-> "nan"], [tag |-> "nonfinite", val |-> "inf"]}

ParseFormatParse ==
    /\ ret.tag = "none"
    /\ \E fields \in ClockFields :
        /\ args' = fields
        /\ ret' = RoundTrip(parse_timestamp_to_seconds(JoinColon(fields)))
    /\ UNCHANGED <<pc, preferred_langs, youtube_url, exc, calls, raw_segments, tracks,
                   track_idx, downloads, result, ts_in, ts_out, run>>

FormatSeconds ==
    /\ ret.tag = "none"
    /\ \E seconds \in FormatInputs :
        /\ args' = seconds
        /\ ret' = [tag |-> "format", text |-> format_timestamp(seconds)]
    /\ UNCHANGED <<pc, preferred_langs, youtube_url, exc, calls, raw_segments, tracks,
                   track_idx, downloads, result, ts_in, ts_out, run>>

NextClock == ParseFormatParse \/ FormatSeconds

SpecClock == Init /\ [][NextClock]_vars

\* C12: for a string MM:SS the strict codec returns minutes*60+seconds, for a
\* string HH:MM:SS hours*3600+minutes*60+seconds, whatever digits the fields
\* hold.
C12_StrictClockValue ==
    ret.tag = "roundtrip" =>
        /\ Len(args) = 2 =>
            ret.first = Ok((DigitsToNat(args[1]) * 60 + DigitsToNat(args[2])) * Ms)
        /\ Len(args) = 3 =>
            ret.first = Ok((DigitsToNat(args[1]) * 3600 + DigitsToNat(args[2]) * 60
                            + DigitsToNat(args[3])) * Ms)

\* 1:01:07 is read as 3667 seconds
C12_Witness ==
    /\ ret.tag = "roundtrip"
    /\ args = <<<<"1">>, <<"0", "1">>, <<"7">>>>
    /\ ret.first = Ok(3667 * Ms)

\* HH:MM:SS with an hour of two digits or more and two digits each for the
\* minute and the second
ZeroPadded(text) ==
    /\ Len(Split(text, <<":">>)) = 3
    /\ \A i \in 1..3 : IsDigitStr(Split(text, <<":">>)[i])
    /\ Len(Split(text, <<":">>)[1]) >= 2
    /\ Len(Split(text, <<":">>)[2]) = 2
    /\ Len(Split(text, <<":">>)[3]) = 2

Url(hostname, path, query) == [hostname |-> hostname, path |-> path, query |-> query]

\* parsed.path.lstrip("/")
RECURSIVE LStripSlash(_)
LStripSlash(path) ==
    IF path # <<>> /\ Head(path) = "/" THEN LStripSlash(Tail(path)) ELSE path

\* parse_qs(parsed.query).get("v", [""])[0]: pairs with a blank value are
\* left out by parse_qs, the first of the others counts
RECURSIVE QueryV(_)
QueryV(query) ==
    IF query = <<>> THEN <<>>
    ELSE IF Head(query)[1] = "v" /\ Head(query)[2] # <<>> THEN Head(query)[2]
    ELSE QueryV(Tail(query))

\* [p for p in parsed.path.split("/") if p]
NonEmptyParts(path) == SelectSeq(Split(path, <<"/">>), LAMBDA part : part # <<>>)

StartsWith(s, prefix) == Len(s) >= Len(prefix) /\ SubSeq(s, 1, Len(prefix)) = prefix

\* video_pipeline.py:42-50: the second path segment, if there is one
SecondPart(parts) == IF Len(parts) >= 2 THEN Ok(parts[2]) ELSE Raise("ValueError")

\* video_pipeline.py:36-52
YoutubeComId(path, video_id) ==
    IF path = <<"/", "watch">> /\ video_id # <<>> THEN Ok(video_id)
    ELSE IF StartsWith(path, <<"/", "shorts", "/">>) /\ Len(NonEmptyParts(path)) >= 2
    THEN SecondPart(NonEmptyParts(path))
    ELSE IF StartsWith(path, <<"/", "embed", "/">>)
    THEN SecondPart(NonEmptyParts(path))
    ELSE Raise("ValueError")

\* video_pipeline.py:29-52 on the parsed URL, host being (hostname or "")
ExtractFromHost(host, path, query) ==
    IF host = <<"youtu.be">> /\ LStripSlash(path) # <<>> THEN Ok(LStripSlash(path))
    ELSE IF Contains(host, <<"youtube.com">>) THEN YoutubeComId(path, QueryV(query))
    ELSE Raise("ValueError")

\* video_pipeline.extract_video_id
extract_video_id(parsed) == ExtractFromHost(parsed.hostname, parsed.path, parsed.query)

\* the URLs handed to run_pipeline
Urls ==
    {Url(<<"youtu.be">>, <<"/", "abc123">>, <<>>),
     Url(<<"youtu.be">>, <<"/", "abc123">>, <<<<"t", <<"5">>>>>>),
     Url(<<"youtu.be">>, <<"/">>, <<>>),
     Url(<<"youtu.be">>, <<>>, <<<<"v", <<"abc123">>>>>>),
     Url(<<"www.", "youtube.com">>, <<"/", "watch">>, <<<<"v", <<"xyz789">>>>, <<"t", <<"5">>>>>>),
     Url(<<"www.", "youtube.com">>, <<"/", "watch">>, <<<<"t", <<"5">>>>, <<"v", <<"xyz789">>>>>>),
     Url(<<"www.", "youtube.com">>, <<"/", "watch">>, <<<<"t", <<"5">>>>>>),
     Url(<<"www.", "youtube.com">>, <<"/", "watch">>, <<<<"v", <<>>>>>>),
     Url(<<"www.", "youtube.com">>, <<"/", "watch", "/">>, <<<<"v", <<"xyz789">>>>>>),
     Url(<<"youtube.com">>, <<"/", "shorts", "/", "abc123">>, <<>>),
     Url(<<"youtube.com">>, <<"/", "shorts", "/">>, <<>>),
     Url(<<"youtube.com">>, <<"/", "shorts">>, <<>>),
     Url(<<"m.", "youtube.com">>, <<"/", "embed", "/", "abc123", "/", "x">>, <<>>),
     Url(<<"youtube.com">>, <<"/", "embed", "/">>, <<>>),
     Url(<<"youtube.com">>, <<"/", "live", "/", "abc123">>, <<>>),
     Url(<<"youtube.com">>, <<"/">>, <<>>),
     Url(<<"not", "youtube.com">>, <<"/", "watch">>, <<<<"v", <<"abc123">>>>>>),
     Url(<<"youtube.com", ".example.com">>, <<"/", "embed", "/", "abc123">>, <<>>),
     Url(<<"example.com">>, <<"/", "watch">>, <<<<"v", <<"abc123">>>>>>),
     Url(<<"example.com">>, <<"/", "shorts", "/", "abc123">>, <<>>),
     Url(<<"example.com">>, <<"/", "abc123">>, <<>>),
     Url(<<>>, <<"youtu.be", "/", "abc123">>, <<>>),
     Url(<<>>, <<"abc123">>, <<>>)}

\* the stages of run_pipeline after the id is extracted, in the order of
\* main.py:140-264, each with the position that follows it
Stages ==
    <<"fetch_transcript", "transcript_to_timestamped_text", "generate_article_plan",
      "download_video", "images", "write_outputs">>

StageAt(stage) == CHOOSE i \in 1..Len(Stages) : Stages[i] = stage

AfterStage(stage) ==
    IF StageAt(stage) = Len(Stages) THEN "returned" ELSE Stages[StageAt(stage) + 1]

\* main.py:134-138: the workspace is prepared and the id extracted; a
\* failure leaves run_pipeline at once
Entered(url, video_id) ==
    [pc |-> IF video_id.tag = "ok" THEN Stages[1] ELSE "failed",
     url |-> url,
     video_id |-> IF video_id.tag = "ok" THEN video_id.val ELSE <<>>,
     steps |-> <<"_build_paths", "extract_video_id">>,
     error |-> IF video_id.tag = "ok" THEN None ELSE video_id.err]

RunEnter ==
    /\ run.pc = "idle"
    /\ \E url \in Urls : run' = Entered(url, extract_video_id(url))
    /\ UNCHANGED <<pc, preferred_langs, youtube_url, exc, calls, raw_segments, tracks,
                   track_idx, downloads, result, ts_in, ts_out, args, ret>>

\* main.py:140-264: the stage at hand is carried out and returns, or raises
\* and ends run_pipeline
RunStage ==
    /\ run.pc \in {Stages[i] : i \in 1..Len(Stages)}
    /\ \E raises \in BOOLEAN :
        run' = [run EXCEPT !.steps = Append(@, run.pc),
                           !.pc = IF raises THEN "failed" ELSE AfterStage(run.pc),
                           !.error = IF raises THEN run.pc ELSE None]
    /\ UNCHANGED <<pc, preferred_langs, youtube_url, exc, calls, raw_segments, tracks,
                   track_idx, downloads, result, ts_in, ts_out, args, ret>>

NextPipeline == RunEnter \/ RunStage

SpecPipeline == Init /\ [][NextPipeline]_vars

\* youtube.com or a host below it
YoutubeHost(hostname) ==
    hostname \in {<<"youtube.com">>, <<"www.", "youtube.com">>, <<"m.", "youtube.com">>}

\* the recognized shapes: youtu.be/<id>, youtube.com/watch?v=<id> among other
\* query parameters, /shorts/<id> and /embed/<id>, with the id each holds
ShapeIds(url) ==
    {id \in {<<"abc123">>, <<"xyz789">>} :
        \/ url.hostname = <<"youtu.be">> /\ url.path = <<"/">> \o id
        \/ /\ YoutubeHost(url.hostname)
           /\ \/ /\ url.path = <<"/", "watch">>
                 /\ \E i \in 1..Len(url.query) :
                     /\ url.query[i] = <<"v", id>>
                     /\ \A j \in 1..(i - 1) : url.query[j][1] # "v"
              \/ \E kind \in {"shorts", "embed"} :
                    StartsWith(url.path, <<"/", kind, "/">> \o id)}

\* C14: extract_video_id returns the id of a URL of a recognized shape and
\* raises for every other URL, and run_pipeline then ends having done nothing
\* but prepare its workspace: no transcript is fetched, no plan asked for and
\* nothing downloaded.
C14_InvalidUrlSurfacedFirst ==
    run.pc # "idle" =>
        /\ \A id \in ShapeIds(run.url) : run.video_id = id
        /\ ShapeIds(run.url) = {} =>
            /\ run.pc = "failed"
            /\ run.error = "ValueError"
            /\ run.steps = <<"_build_paths", "extract_video_id">>
        /\ \A i \in 1..Len(run.steps) :
            run.steps[i] \in {Stages[j] : j \in 1..Len(Stages)} => ShapeIds(run.url) # {}

(***************************************************************************)
(* transcript_to_timestamped_text on its own.  The start of a segment is a *)
(* float: Ok(milliseconds), or with the tag "nonfinite".                   *)
(***************************************************************************)
\* f"[{format_timestamp(item.start)}] {item.text}"
RenderLine(clock, text) ==
    IF clock.tag = "ok" THEN Ok(<<"[">> \o clock.val \o <<"]", " ">> \o text) ELSE clock

\* "\n".join(...) over the lines so far and the next one
JoinedLine(line, rest, last) ==
    IF line.tag = "raise" THEN line
    ELSE IF rest.tag = "raise" THEN rest
    ELSE Ok(line.val \o (IF last THEN <<>> ELSE <<"\n">>) \o rest.val)

\* video_pipeline.transcript_to_timestamped_text
RECURSIVE transcript_to_timestamped_text(_)
transcript_to_timestamped_text(segments) ==
    IF segments = <<>> THEN Ok(<<>>)
    ELSE JoinedLine(RenderLine(format_timestamp(Head(segments).start), Head(segments).text),
                    transcript_to_timestamped_text(Tail(segments)),
                    Len(segments) = 1)

\* segments a transcript may hold: starts that are whole, fractional, negative
\* (a model entry "-5:3"), past an hour, and infinite (a json3 tStartMs of
\* 1e999); texts as fetch_transcript leaves them
RenderSegments ==
    [start : {Ok(0), Ok(1500), Ok(-297000), Ok(3661000), [tag |-> "nonfinite", val |-> "inf"]},
     duration : {0},
     text : {<<"a">>, <<"b", " ", "c">>}]

Render ==
    /\ ret.tag = "none"
    /\ \E segments \in SeqsUpTo(RenderSegments, MaxItems) :
        /\ args' = segments
        /\ ret' = transcript_to_timestamped_text(segments)
    /\ UNCHANGED <<pc, preferred_langs, youtube_url, exc, calls, raw_segments, tracks,
                   track_idx, downloads, result, ts_in, ts_out, run>>

NextRender == Render

SpecRender == Init /\ [][NextRender]_vars

\* the lines of a rendered text
LinesOf(text) == IF text = <<>> THEN <<>> ELSE Split(text, <<"\n">>)

\* C15: transcript_to_timestamped_text is total: for every segment sequence
\* it returns a text with exactly one line per segment, in the given order,
\* each line the segment's text behind a bracketed clock.
C15_RenderOneLinePerSegment ==
    ret.tag # "none" =>
        /\ ret.tag = "ok"
        /\ Len(LinesOf(ret.val)) = Len(args)
        /\ \A i \in 1..Len(args) :
            /\ LinesOf(ret.val)[i][1] = "["
            /\ SubSeq(LinesOf(ret.val)[i], 10, Len(LinesOf(ret.val)[i]))
                   = <<"]", " ">> \o args[i].text

(***************************************************************************)
(* _collect_caption_tracks on its own.                                     *)
(***************************************************************************)
MaxCands == 2      \* most caption descriptors per origin handed to the selector

\* language and format of a descriptor: preferred and other languages, the
\* two parsed formats, another format, and a descriptor without a format
LangExts ==
    {<<"en", "json3">>, <<"en", "vtt">>, <<"de", "vtt">>, <<"fr", "json3">>,
     <<"en", "srv3">>, <<"de", "">>}

\* the descriptors of one language come one after another: they are one list
\* of the mapping
LangsAdjacent(seq) ==
    \A i \in 1..Len(seq) : \A k \in i..Len(seq) :
        seq[i][1] = seq[k][1] => \A j \in i..k : seq[j][1] = seq[i][1]

\* the descriptors of one origin, each with a url of its own
Described(seq, urls) ==
    [i \in 1..Len(seq) |-> [lang |-> seq[i][1], ext |-> seq[i][2], url |-> urls[i]]]

OriginLists == {seq \in SeqsUpTo(LangExts, MaxCands) : LangsAdjacent(seq)}

SelectorInfos ==
    {[subtitles |-> Described(subs, <<"s1", "s2", "s3", "s4">>),
      automatic_captions |-> Described(auto, <<"a1", "a2", "a3", "a4">>)] :
        subs \in OriginLists, auto \in OriginLists}

Collect ==
    /\ ret.tag = "none"
    /\ \E info \in SelectorInfos, langs \in {DefaultLangs, <<"de", "en">>} :
        /\ args' = [info |-> info, langs |-> langs]
        /\ ret' = Ok(_collect_caption_tracks(info, langs))
    /\ UNCHANGED <<pc, preferred_langs, youtube_url, exc, calls, raw_segments, tracks,
                   track_idx, downloads, result, ts_in, ts_out, run>>

NextSelector == Collect

SpecSelector == Init /\ [][NextSelector]_vars

\* the descriptors in the order they are discovered
Discovered(info) == info.subtitles \o info.automatic_captions

\* position at which the descriptor with this url is discovered
DiscoveredAt(info, url) ==
    CHOOSE i \in 1..Len(Discovered(info)) : Discovered(info)[i].url = url

\* index in the preferred-language list, or len(list) + 1 if unlisted
LanguageRank(lang, langs) ==
    IF \E i \in 1..Len(langs) : langs[i] = lang
    THEN (CHOOSE i \in 1..Len(langs) : langs[i] = lang) - 1
    ELSE Len(langs) + 1

\* json3 before vtt before every other format
FormatRank(ext) == IF ext = "json3" THEN 0 ELSE IF ext = "vtt" THEN 1 ELSE 2

\* the tuple (language rank, origin rank, format rank) of a candidate
RankOf(info, langs, url) ==
    <<LanguageRank(Discovered(info)[DiscoveredAt(info, url)].lang, langs),
      IF DiscoveredAt(info, url) <= Len(info.subtitles) THEN 0 ELSE 1,
      FormatRank(Discovered(info)[DiscoveredAt(info, url)].ext)>>

TupleLess(a, b) ==
    \/ a[1] < b[1]
    \/ a[1] = b[1] /\ a[2] < b[2]
    \/ a[1] = b[1] /\ a[2] = b[2] /\ a[3] < b[3]

ParsedFormats == {"json3", "vtt"}

\* C17: a track whose format is neither json3 nor vtt is ranked after the
\* json3 and vtt tracks of its language and origin, and is never attempted:
\* the scraped-track strategy starts no download for it.
C17_UnrecognizedNeverAttempted ==
    /\ \A i \in 1..Len(tracks) : \A j \in (i + 1)..Len(tracks) :
        (/\ tracks[i].language_score = tracks[j].language_score
         /\ tracks[i].source_priority = tracks[j].source_priority
         /\ tracks[i].ext \notin ParsedFormats) => tracks[j].ext \notin ParsedFormats
    /\ \A k \in 1..Len(downloads) : tracks[downloads[k]].ext \in ParsedFormats

(***************************************************************************)
(* The loop of _fetch_transcript_via_ytdlp over the ranked candidates, as  *)
(* a function of the candidates and of what each download does.            *)
(***************************************************************************)
\* the downloads _download_and_parse_caption_track starts for a track
Fetched(url) == IF url = "" THEN <<>> ELSE <<url>>

\* the loop body returning after its first candidate, whatever it yields
AfterCandidate_FirstOnly(url, parsed, later) ==
    [segments |-> parsed, downloaded |-> Fetched(url)]

\* video_pipeline.py:136-138: an empty parse goes on to the later candidates,
\* anything else leaves the loop
AfterCandidate(url, parsed, later) ==
    IF parsed.tag = "ok" /\ parsed.val = <<>>
    THEN [segments |-> later.segments, downloaded |-> Fetched(url) \o later.downloaded]
    ELSE [segments |-> parsed, downloaded |-> Fetched(url)]

\* video_pipeline.py:135-139 from candidate i on; fetched[i] is what
\* _download_text does for candidate i
RECURSIVE TryFrom(_, _, _)
TryFrom(ranked, fetched, i) ==
    IF i > Len(ranked) THEN [segments |-> Ok(<<>>), downloaded |-> <<>>]
    ELSE AfterCandidate(ranked[i].url,
                        _download_and_parse_caption_track(ranked[i], fetched[i]),
                        TryFrom(ranked, fetched, i + 1))

\* video_pipeline._fetch_transcript_via_ytdlp once extract_info has answered
_fetch_transcript_via_ytdlp(info, langs, fetched) ==
    TryFrom(_collect_caption_tracks(info, langs), fetched, 1)

\* extracted infos with no, one or two candidates
StrategyInfos ==
    [subtitles : {<<>>, <<[lang |-> "en", ext |-> "json3", url |-> "u1"]>>,
                  <<[lang |-> "de", ext |-> "vtt", url |-> "u2"]>>},
     automatic_captions : {<<>>, <<[lang |-> "en", ext |-> "srv3", url |-> "u3"]>>,
                           <<[lang |-> "de", ext |-> "vtt", url |-> "u4"]>>,
                           <<[lang |-> "en", ext |-> "json3", url |-> "u5"]>>}]

\* what one download may do: fail, or hand over a track of at most one unit
StrategyDownloads(track) ==
    {Raise("RuntimeError")}
    \cup (IF track.ext = "json3"
          THEN {Ok(Json3Content("invalid", FALSE, <<>>)),
                Ok(Json3Content("object", TRUE, <<>>))}
               \cup {Ok(Json3Content("object", TRUE, <<ev>>)) : ev \in Json3EventSet}
          ELSE IF track.ext = "vtt" THEN {Ok(<<>>)} \cup {Ok(<<b>>) : b \in VttBlockSet}
          ELSE {Ok(<<>>)})

\* the outcomes of the downloads of the candidates from i on, one each
RECURSIVE FetchedFor(_, _)
FetchedFor(ranked, i) ==
    IF i > Len(ranked) THEN {<<>>}
    ELSE {<<first>> \o rest : first \in StrategyDownloads(ranked[i]),
                              rest \in FetchedFor(ranked, i + 1)}

TryRanked ==
    /\ ret.tag = "none"
    /\ \E info \in StrategyInfos :
        \E fetched \in FetchedFor(_collect_caption_tracks(info, DefaultLangs), 1) :
            /\ args' = [ranked |-> _collect_caption_tracks(info, DefaultLangs),
                        fetched |-> fetched]
            /\ ret' = Ok(_fetch_transcript_via_ytdlp(info, DefaultLangs, fetched))
    /\ UNCHANGED <<pc, preferred_langs, youtube_url, exc, calls, raw_segments, tracks,
                   track_idx, downloads, result, ts_in, ts_out, run>>

NextStrategy == TryRanked

SpecStrategy == Init /\ [][NextStrategy]_vars

\* what candidate i yields when it is attempted
YieldOf(i) == _download_and_parse_caption_track(args.ranked[i], args.fetched[i])

\* candidate i fails: its download fails or its parse is empty
Fails(i) == YieldOf(i) = Ok(<<>>)

\* candidate i yields a non-empty sequence
Succeeds(i) == YieldOf(i).tag = "ok" /\ YieldOf(i).val # <<>>

ParserEvents ==
    Json3EventSet \cup {Event(NumV(1000), StrV(<<"x">>), <<<<"b">>>>)}

\* VTT blocks whose time range does not parse: a start that is no clock, no
\* end at all, and an end of four fields
UnparseableBlocks ==
    {<<<<"x", " ", "-", "-", ">", " ", "0", "0", ":", "0", "2">>, <<"a">>>>,
     <<<<"0", "0", ":", "0", "1", " ", "-", "-", ">">>, <<"b">>>>,
     <<<<"0", "0", ":", "0", "1", " ", "-", "-", ">", " ", "1", ":", "2", ":", "3", ":", "4">>, <<"a">>>>}

ParserBlocks == VttBlockSet \cup UnparseableBlocks

ParseJson3 ==
    /\ ret.tag = "none"
    /\ \E content \in Json3Contents
                      \cup {Json3Content("object", TRUE, ev) :
                                ev \in SeqsUpTo(ParserEvents, MaxItems)} :
        /\ args' = [ext |-> "json3", events |-> content.events, blocks |-> <<>>]
        /\ ret' = _parse_json3_transcript(content)
    /\ UNCHANGED <<pc, preferred_langs, youtube_url, exc, calls, raw_segments, tracks,
                   track_idx, downloads, result, ts_in, ts_out, run>>

ParseVtt ==
    /\ ret.tag = "none"
    /\ \E blocks \in SeqsUpTo(ParserBlocks, MaxItems) :
        /\ args' = [ext |-> "vtt", events |-> <<>>, blocks |-> blocks]
        /\ ret' = Ok(_parse_vtt_transcript(blocks))
    /\ UNCHANGED <<pc, preferred_langs, youtube_url, exc, calls, raw_segments, tracks,
                   track_idx, downloads, result, ts_in, ts_out, run>>

NextParsers == ParseJson3 \/ ParseVtt

SpecParsers == Init /\ [][NextParsers]_vars

\* a json3 event one of whose millisecond fields is no number
MalformedEvent(event) ==
    \/ event.tStartMs.t = "str" /\ ~_is_number(event.tStartMs.s)
    \/ event.dDurationMs.t = "str" /\ ~_is_number(event.dDurationMs.s)

\* the sequence without its k-th element
Without(seq, k) == SubSeq(seq, 1, k - 1) \o SubSeq(seq, k + 1, Len(seq))

\* C19: a track of well-formed units and one malformed unit parses to what
\* the track without that unit parses to, for json3 events with a
\* non-numeric tStartMs or dDurationMs and for VTT blocks with an
\* unparseable time range.
C19_MalformedUnitSkipped ==
    /\ (ret.tag # "none" /\ args.ext = "json3") =>
        \A k \in 1..Len(args.events) :
            (/\ MalformedEvent(args.events[k])
             /\ \A j \in 1..Len(args.events) : j # k => ~MalformedEvent(args.events[j]))
                => ret = _parse_json3_transcript(
                             Json3Content("object", TRUE, Without(args.events, k)))
    /\ (ret.tag # "none" /\ args.ext = "vtt") =>
        \A k \in 1..Len(args.blocks) :
            (/\ args.blocks[k] \in UnparseableBlocks
             /\ \A j \in 1..Len(args.blocks) : j # k => args.blocks[j] \notin UnparseableBlocks)
                => ret = Ok(_parse_vtt_transcript(Without(args.blocks, k)))

\* the text an event results in: its fragments concatenated in order, then
\* entity-decoded and normalised
ResultingText(event) == NormalizeText(HtmlUnescape(Concat(event.segs)))

\* the events that result in some text, in the order of the track
WithText(events) == SelectSeq(events, LAMBDA event : ResultingText(event) # <<>>)

\* tStartMs / 1000 or dDurationMs / 1000, an absent field counting as 0
FieldSeconds(x) == IF x.t = "num" THEN x.v ELSE 0

\* C20: _parse_json3_transcript yields exactly one segment for each event
\* that results in some text, in the order of the events, with
\* start = max(0, tStartMs/1000), duration = max(0, dDurationMs/1000) and the
\* concatenated fragments as text, and no segment for an event without text.
C20_Json3SegmentPerEvent ==
    (ret.tag # "none" /\ args.ext = "json3" /\ args.events # <<>>) =>
        /\ ret.tag = "ok"
        /\ Len(ret.val) = Len(WithText(args.events))
        /\ \A i \in 1..Len(WithText(args.events)) :
            /\ ret.val[i].text = ResultingText(WithText(args.events)[i])
            /\ WithText(args.events)[i].tStartMs.t # "str"
                => ret.val[i].start = Max(0, FieldSeconds(WithText(args.events)[i].tStartMs))
            /\ WithText(args.events)[i].dDurationMs.t # "str"
                => ret.val[i].duration
                     = Max(0, FieldSeconds(WithText(args.events)[i].dDurationMs))

\* the line of a block that holds the time range: the first line, or the
\* second one after a cue identifier
RangeIdx(lines) == IF lines # <<>> /\ Contains(lines[1], Arrow) THEN 1 ELSE 2

HasRange(lines) ==
    RangeIdx(lines) <= Len(lines) /\ Contains(lines[RangeIdx(lines)], Arrow)

\* the two times of a 'start --> end' line, cue settings after the end left out
StartOf(line) == _parse_vtt_time(Strip(Split1(line, Arrow)[1]))

EndOf(line) == _parse_vtt_time(Split(Strip(Split1(line, Arrow)[2]), <<" ">>)[1])

\* the text of the lines after the range, markup stripped
CueText(lines) ==
    NormalizeText(HtmlUnescape(StripTags(
        JoinSpace(SubSeq(lines, RangeIdx(lines) + 1, Len(lines))))))

\* the block holds a parseable range and is left with some text
YieldsCue(lines) ==
    /\ HasRange(lines)
    /\ RangeIdx(lines) < Len(lines)
    /\ StartOf(lines[RangeIdx(lines)]).tag = "ok"
    /\ EndOf(lines[RangeIdx(lines)]).tag = "ok"
    /\ CueText(lines) # <<>>

\* the blocks that yield a cue, as their non-empty lines, in track order
Cues(blocks) ==
    SelectSeq([i \in 1..Len(blocks) |-> StrippedLines(blocks[i])], YieldsCue)

\* C21: _parse_vtt_transcript yields one segment for each block whose first
\* or second line holds a parseable 'start --> end' range and whose remaining
\* lines keep some text after tag stripping, in the order of the blocks, with
\* start = max(0, start) and duration = max(0, end - start); every other
\* block (the WEBVTT header, an unparseable range, no text) yields none.
C21_VttSegmentPerCue ==
    (ret.tag # "none" /\ args.ext = "vtt") =>
        /\ ret.tag = "ok"
        /\ Len(ret.val) = Len(Cues(args.blocks))
        /\ \A i \in 1..Len(Cues(args.blocks)) :
            /\ ret.val[i].text = CueText(Cues(args.blocks)[i])
            /\ ret.val[i].start
                 = Max(0, StartOf(Cues(args.blocks)[i][RangeIdx(Cues(args.blocks)[i])]).val)
            /\ ret.val[i].duration
                 = Max(0, EndOf(Cues(args.blocks)[i][RangeIdx(Cues(args.blocks)[i])]).val
                          - StartOf(Cues(args.blocks)[i][RangeIdx(Cues(args.blocks)[i])]).val)

\* the header block and a cue with an identifier line and an end before its
\* start: one segment, of duration 0
C21_Witness ==
    /\ ret.tag = "ok"
    /\ args.ext = "vtt"
    /\ Len(args.blocks) = 2
    /\ args.blocks[1] = <<<<"W", "E", "B", "V", "T", "T">>>>
    /\ args.blocks[2][1] = <<"1">>
    /\ ret.val = <<TranscriptSegment(500, 0, <<"a">>)>>

(***************************************************************************)
(* The model-transcription adapter on its own.                             *)
(***************************************************************************)
\* three entries out of order: starts 10, 0 and 5
OutOfOrder ==
    <<[timestamp |-> <<"1", "0">>, text |-> <<"a">>],
      [timestamp |-> <<"0">>, text |-> <<"b">>],
      [timestamp |-> <<"5">>, text |-> <<"c">>]>>

ParseResponse ==
    /\ ret.tag = "none"
    /\ \E response \in Responses \cup {Response("segments", OutOfOrder)} :
        /\ args' = response
        /\ ret' = _parse_transcribe_response(response)
    /\ UNCHANGED <<pc, preferred_langs, youtube_url, exc, calls, raw_segments, tracks,
                   track_idx, downloads, result, ts_in, ts_out, run>>

NextAdapter == ParseResponse

SpecAdapter == Init /\ [][NextAdapter]_vars

\* the entries of a response that carry some text
Usable(entries) == SelectSeq(entries, LAMBDA item : NormalizeText(item.text) # <<>>)

\* C22: for a response with at least one usable entry,
\* _parse_transcribe_response returns one segment per usable entry, ascending
\* by start, each segment but the last with duration
\* max(0, next.start - this.start), so that start + duration is the next
\* start, and the last one with duration 8.0.
C22_SortedAndBackFilled ==
    (ret.tag # "none" /\ args.payload = "segments" /\ Usable(args.entries) # <<>>) =>
        /\ ret.tag = "ok"
        /\ Len(ret.val) = Len(Usable(args.entries))
        /\ \A i \in 1..(Len(ret.val) - 1) :
            /\ ret.val[i].start <= ret.val[i + 1].start
            /\ ret.val[i].duration = Max(0, ret.val[i + 1].start - ret.val[i].start)
            /\ ret.val[i].start + ret.val[i].duration = ret.val[i + 1].start
        /\ ret.val[Len(ret.val)].duration = LastDuration

(***************************************************************************)
(* The payload of the model's answer.  An answer is a sequence of tokens:  *)
(* prose "p", blanks, the brackets and braces, the comma, the key          *)
(* "segments": as "S", the fence lines, and the members of a segment       *)
(* object as the name of an entry.                                         *)
(***************************************************************************)
EntryNames == {"e1", "e2"}

\* the members "timestamp": ..., "text": ... a name stands for
EntryOf(name) ==
    IF name = "e1" THEN [timestamp |-> <<"7">>, text |-> <<"a">>]
    ELSE [timestamp |-> <<"0", ":", "0", "5">>, text |-> <<"b">>]

\* the line that opens a fenced block, language tag and newline included
FenceOpen == "<fence json>"

\* the newline and the closing fence
FenceClose == "<fence>"

IsEntryObj(t) == Len(t) = 3 /\ t[1] = "{" /\ t[2] \in EntryNames /\ t[3] = "}"

PrependItem(item, rest) == IF rest.tag = "raise" THEN rest ELSE Ok(<<item>> \o rest.val)

\* json.loads of segment objects separated by commas
RECURSIVE ObjList(_)
ObjList(t) ==
    IF IsEntryObj(t) THEN Ok(<<EntryOf(t[2])>>)
    ELSE IF Len(t) > 4 /\ IsEntryObj(SubSeq(t, 1, 3)) /\ t[4] = ","
    THEN PrependItem(EntryOf(t[2]), ObjList(SubSeq(t, 5, Len(t))))
    ELSE Raise("JSONDecodeError")

\* json.loads of an array of segment objects
JsonList(t) ==
    IF Len(t) >= 2 /\ t[1] = "[" /\ t[Len(t)] = "]"
    THEN IF Len(t) = 2 THEN Ok(<<>>) ELSE ObjList(SubSeq(t, 2, Len(t) - 1))
    ELSE Raise("JSONDecodeError")

Json(kind, items) == [kind |-> kind, items |-> items]

\* json.loads of an object {"segments": [...]}
JsonSegmentsDict(list) ==
    IF list.tag = "raise" THEN Json("invalid", <<>>) ELSE Json("dict_segments", list.val)

\* json.loads on the texts of the model: an array of segment objects, the
\* empty object, one segment object, an object with a segments array
json_loads(t) ==
    IF JsonList(t).tag = "ok" THEN Json("list", JsonList(t).val)
    ELSE IF t = <<"{", "}">> THEN Json("dict_empty", <<>>)
    ELSE IF IsEntryObj(t) THEN Json("dict", <<>>)
    ELSE IF Len(t) >= 5 /\ t[1] = "{" /\ t[2] = "S" /\ t[Len(t)] = "}"
    THEN JsonSegmentsDict(JsonList(SubSeq(t, 3, Len(t) - 1)))
    ELSE Json("invalid", <<>>)

\* text.find(c), 0 when absent
Find(text, c) ==
    IF \E i \in 1..Len(text) : text[i] = c
    THEN CHOOSE i \in 1..Len(text) : text[i] = c /\ \A j \in 1..(i - 1) : text[j] # c
    ELSE 0

\* text.rfind(c), 0 when absent
RFind(text, c) ==
    IF \E i \in 1..Len(text) : text[i] = c
    THEN CHOOSE i \in 1..Len(text) : text[i] = c /\ \A j \in (i + 1)..Len(text) : text[j] # c
    ELSE 0

\* audio_transcriber._substring_json
_substring_json(text) ==
    IF Find(text, "{") >= 1 /\ RFind(text, "}") > Find(text, "{")
    THEN SubSeq(text, Find(text, "{"), RFind(text, "}"))
    ELSE IF Find(text, "[") >= 1 /\ RFind(text, "]") > Find(text, "[")
    THEN SubSeq(text, Find(text, "["), RFind(text, "]"))
    ELSE <<>>

\* audio_transcriber.py:205-206: the fence lines removed
Unfenced(raw) ==
    IF raw # <<>> /\ Head(raw) = FenceOpen
    THEN Strip(IF Len(raw) >= 2 /\ raw[Len(raw)] = FenceClose
               THEN SubSeq(raw, 2, Len(raw) - 1) ELSE Tail(raw))
    ELSE raw

\* audio_transcriber.py:211-215: what a decoded candidate is returned as
PayloadOf(obj) ==
    IF obj.kind \in {"list", "dict_segments"} THEN Response("segments", obj.items)
    ELSE IF obj.kind = "dict" THEN Response("no_segments", <<>>)
    ELSE Response("none", <<>>)

\* the loop at audio_transcriber.py:208-216 over raw and _substring_json(raw)
Candidates(raw, embedded) ==
    IF raw # <<>> /\ json_loads(raw).kind # "invalid" THEN PayloadOf(json_loads(raw))
    ELSE IF embedded # <<>> /\ json_loads(embedded).kind # "invalid"
    THEN PayloadOf(json_loads(embedded))
    ELSE Response("none", <<>>)

ExtractStripped(raw) == Candidates(raw, _substring_json(raw))

\* audio_transcriber._extract_json_payload
_extract_json_payload(text) ==
    IF Strip(text) = <<>> THEN Response("none", <<>>)
    ELSE ExtractStripped(Unfenced(Strip(text)))

\* JSON texts and broken ones
AnswerCores ==
    {<<>>, <<"[", "]">>, <<"{", "}">>,
     <<"[", "{", "e1", "}", "]">>,
     <<"[", "{", "e1", "}", ",", "{", "e2", "}", "]">>,
     <<"[", "{", "e2", "}", ",", "{", "e1", "}", "]">>,
     <<"{", "e1", "}">>,
     <<"{", "S", "[", "]", "}">>,
     <<"{", "S", "[", "{", "e1", "}", "]", "}">>,
     <<"{", "S", "[", "{", "e2", "}", ",", "{", "e1", "}", "]", "}">>,
     <<"[", "{", "e1", "}">>,
     <<"{", "S", "[", "{", "e1", "}", "]">>}

\* what the model answers: a core, bare or fenced, inside prose or not
ModelAnswers ==
    {before \o core \o after :
        before \in {<<>>, <<"p">>, <<" ", "p">>, <<FenceOpen>>},
        core \in AnswerCores,
        after \in {<<>>, <<"p">>, <<"p", " ">>, <<FenceClose>>}}

ExtractAndParse ==
    /\ ret.tag = "none"
    /\ \E text \in ModelAnswers :
        /\ args' = text
        /\ ret' = _parse_transcribe_response(_extract_json_payload(text))
    /\ UNCHANGED <<pc, preferred_langs, youtube_url, exc, calls, raw_segments, tracks,
                   track_idx, downloads, result, ts_in, ts_out, run>>

NextExtract == ExtractAndParse

SpecExtract == Init /\ [][NextExtract]_vars

\* the answer is an array of segment objects with prose before or after it
ProseAroundList(text) ==
    \E i \in 1..Len(text), j \in 1..Len(text) :
        /\ i < j
        /\ j - i > 1
        /\ JsonList(SubSeq(text, i, j)).tag = "ok"
        /\ i > 1 \/ j < Len(text)
        /\ \A k \in (1..(i - 1)) \cup ((j + 1)..Len(text)) : text[k] \in {"p", " "}

\* the array inside the prose
ListIn(text) == SubSeq(text, Find(text, "["), RFind(text, "]"))

\* C23: an answer that is prose around a JSON array of segment objects is
\* not parseable as it stands; the adapter parses the embedded array as the
\* segments and returns exactly those segments, not an empty sequence.
C23_EmbeddedListExtracted ==
    (ret.tag # "none" /\ ProseAroundList(args)) =>
        ret = _parse_transcribe_response(Response("segments", JsonList(ListIn(args)).val))

\* C24: the adapter never raises; an answer without usable segments (no
\* payload, no segments list, no entry with text) gives the empty sequence;
\* no usable entry is dropped, and one whose timestamp is no timestamp
\* comes back with start 0.0.
C24_MalformedAnswerIsEmpty ==
    ret.tag # "none" =>
        /\ ret.tag = "ok"
        /\ (args.payload # "segments" \/ Usable(args.entries) = <<>>) => ret.val = <<>>
        /\ args.payload = "segments" =>
            /\ Len(ret.val) = Len(Usable(args.entries))
            /\ \A i \in 1..Len(Usable(args.entries)) :
                ~TimestampLike(Strip(Usable(args.entries)[i].timestamp))
                    => \E k \in 1..Len(ret.val) :
                        /\ ret.val[k].start = 0
                        /\ ret.val[k].text = NormalizeText(Usable(args.entries)[i].text)

\* ---------------------------------------------------------------------
\* history_store: the flat log history/runs.jsonl under concurrent runs.
\* args is the workspace (the log file and every writer's position in
\* append_history_record), ret the result of the last load.
\* ---------------------------------------------------------------------
MaxWriters == 3
MaxClock == 2
MaxLimit == 3
Writers == 1..MaxWriters

\* a history row; created_at is the second of the wall clock (the ISO
\* strings of datetime.isoformat(timespec="seconds") order as their seconds)
Row(created_at, source_url) == [created_at |-> created_at, source_url |-> source_url]
NoRow == Row(0, 0)

\* json.dumps(record) + "\n": one line holding one JSON object
LineOf(record) == [kind |-> "object", row |-> record]
BlankLine == [kind |-> "blank", row |-> NoRow]
CorruptLine == [kind |-> "corrupt", row |-> NoRow]
ArrayLine == [kind |-> "array", row |-> NoRow]

\* the rows load_history_records keeps: blank lines, lines json.loads
\* rejects and JSON values that are no dict are skipped
RECURSIVE RowsOf(_)
RowsOf(lines) ==
    IF lines = <<>> THEN <<>>
    ELSE IF Head(lines).kind = "object" THEN <<Head(lines).row>> \o RowsOf(Tail(lines))
    ELSE RowsOf(Tail(lines))

\* rows.sort(key=created_at, reverse=True): stable, rows of one second keep
\* the order of the file
RECURSIVE InsertByCreatedAt(_, _)
InsertByCreatedAt(sorted, row) ==
    IF sorted = <<>> THEN <<row>>
    ELSE IF Head(sorted).created_at < row.created_at THEN <<row>> \o sorted
    ELSE <<Head(sorted)>> \o InsertByCreatedAt(Tail(sorted), row)

RECURSIVE SortByCreatedAt(_)
SortByCreatedAt(rows) ==
    IF rows = <<>> THEN <<>>
    ELSE InsertByCreatedAt(SortByCreatedAt(SubSeq(rows, 1, Len(rows) - 1)),
                                   rows[Len(rows)])

load_history_records(exists, lines, limit) ==
    IF ~exists THEN <<>>
    ELSE LET rows == SortByCreatedAt(RowsOf(lines))
             n == IF limit < 0 THEN 0 ELSE limit
         IN  SubSeq(rows, 1, IF n < Len(rows) THEN n ELSE Len(rows))

ExistingLogs ==
    {<<>>, <<BlankLine>>, <<LineOf(Row(1, 0)), CorruptLine>>, <<ArrayLine, LineOf(Row(2, 0))>>}

\* a workspace before any run of this session
OpenWorkspace ==
    /\ args = <<>>
    /\ \E exists \in BOOLEAN, existing \in ExistingLogs :
        /\ exists \/ existing = <<>>
        /\ args' = [exists |-> exists, log |-> existing, initial |-> existing,
                    at |-> [w \in Writers |-> "idle"],
                    record |-> [w \in Writers |-> NoRow],
                    limit |-> 0]
    /\ UNCHANGED <<pc, preferred_langs, youtube_url, exc, calls, raw_segments, tracks,
                   track_idx, downloads, result, ts_in, ts_out, run, ret>>

\* append_history_record, lines 13-15: mkdir and open(..., "a")
AppendOpen(w) ==
    /\ args # <<>>
    /\ args.at[w] = "idle"
    /\ \E created_at \in 1..MaxClock :
        args' = [args EXCEPT !.exists = TRUE, !.at[w] = "open",
                             !.record[w] = Row(created_at, w)]
    /\ UNCHANGED <<pc, preferred_langs, youtube_url, exc, calls, raw_segments, tracks,
                   track_idx, downloads, result, ts_in, ts_out, run, ret>>

\* line 16: file.write puts the line in the buffer of the file object
AppendWrite(w) ==
    /\ args # <<>>
    /\ args.at[w] = "open"
    /\ args' = [args EXCEPT !.at[w] = "buffered"]
    /\ UNCHANGED <<pc, preferred_langs, youtube_url, exc, calls, raw_segments, tracks,
                   track_idx, downloads, result, ts_in, ts_out, run, ret>>

\* leaving the with block flushes the buffer: one write on a descriptor
\* opened with O_APPEND puts the whole line at the end of the file
AppendClose(w) ==
    /\ args # <<>>
    /\ args.at[w] = "buffered"
    /\ args' = [args EXCEPT !.at[w] = "done",
                             !.log = Append(@, LineOf(args.record[w]))]
    /\ UNCHANGED <<pc, preferred_langs, youtube_url, exc, calls, raw_segments, tracks,
                   track_idx, downloads, result, ts_in, ts_out, run, ret>>

LoadHistory ==
    /\ args # <<>>
    /\ \E limit \in -1..MaxLimit :
        /\ args' = [args EXCEPT !.limit = limit]
        /\ ret' = Ok(load_history_records(args.exists, args.log, limit))
    /\ UNCHANGED <<pc, preferred_langs, youtube_url, exc, calls, raw_segments, tracks,
                   track_idx, downloads, result, ts_in, ts_out, run>>

NextHistory ==
    \/ OpenWorkspace
    \/ \E w \in Writers : AppendOpen(w)
    \/ \E w \in Writers : AppendWrite(w)
    \/ \E w \in Writers : AppendClose(w)
    \/ LoadHistory

SpecHistory == Init /\ [][NextHistory]_vars

\* the writers whose append has returned
Appended == {w \in Writers : args.at[w] = "done"}

RECURSIVE Orders(_)
Orders(S) ==
    IF S = {} THEN {<<>>}
    ELSE UNION {{<<w>> \o order : order \in Orders(S \ {w})} : w \in S}

\* the log after the appends of the writers in this order
LogAfter(order) == args.initial \o [i \in 1..Len(order) |-> LineOf(args.record[order[i]])]

\* C25: under every interleaving the log is what it was before, unchanged,
\* followed by the line of every returned append exactly once, and a load
\* of the log gives what it gives for every other order of these appends.
C25_AppendsSafeAndOrderIndependent ==
    args # <<>> =>
        /\ \E order \in Orders(Appended) : args.log = LogAfter(order)
        /\ ret = Ok(load_history_records(args.exists, args.log, args.limit)) =>
            \A order \in Orders(Appended) :
                ret.val = load_history_records(args.exists, LogAfter(order), args.limit)

\* the first half of C25 alone
AppendOnly ==
    args # <<>> => \E order \in Orders(Appended) : args.log = LogAfter(order)

\* ---------------------------------------------------------------------
\* main() around run_pipeline around fetch_transcript: one run of the
\* command line. args is the history log of the workspace, the records
\* this run appended.
\* ---------------------------------------------------------------------

\* a source URL handed on to fetch_transcript
FetchUrlArg_SourceUrl(url) == "https://youtu.be/abc123"

\* main.py:141: fetch_transcript(video_id) leaves youtube_url at its
\* default (video_pipeline.py:58)
FetchUrlArg(url) == None

\* the --url of the command line: two videos and a page that is none
ArgUrls ==
    {Url(<<"youtu.be">>, <<"/", "abc123">>, <<>>),
     Url(<<"www.", "youtube.com">>, <<"/", "watch">>, <<<<"v", <<"xyz789">>>>>>),
     Url(<<"example.com">>, <<"/", "watch">>, <<<<"v", <<"abc123">>>>>>)}

\* main.py:316-324 and 134-138: main() parses its arguments and enters
\* run_pipeline
MainEnter ==
    /\ run.pc = "idle"
    /\ \E url \in ArgUrls : run' = Entered(url, extract_video_id(url))
    /\ UNCHANGED <<pc, preferred_langs, youtube_url, exc, calls, raw_segments, tracks,
                   track_idx, downloads, result, ts_in, ts_out, args, ret>>

\* main.py:141: run_pipeline enters fetch_transcript
RunFetch ==
    /\ run.pc = "fetch_transcript"
    /\ pc = "idle"
    /\ preferred_langs' = PreferredLangs(None)
    /\ youtube_url' = FetchUrlArg(run.url)
    /\ pc' = "primary"
    /\ UNCHANGED <<exc, calls, raw_segments, tracks, track_idx, downloads, result,
                   ts_in, ts_out, args, ret, run>>

\* a run that goes on whatever fetch_transcript did
AfterFetch_GoesOn(outcome) == [pc |-> AfterStage("fetch_transcript"), error |-> None]

\* main.py:141-142: the transcript is bound, or the exception of
\* fetch_transcript ends run_pipeline
AfterFetch(outcome) ==
    IF outcome.kind = "return" THEN [pc |-> AfterStage("fetch_transcript"), error |-> None]
    ELSE [pc |-> "failed", error |-> outcome.error]

RunFetched ==
    /\ run.pc = "fetch_transcript"
    /\ pc = "done"
    /\ run' = [run EXCEPT !.steps = Append(@, "fetch_transcript"),
                          !.pc = AfterFetch(result).pc,
                          !.error = AfterFetch(result).error]
    /\ UNCHANGED <<pc, preferred_langs, youtube_url, exc, calls, raw_segments, tracks,
                   track_idx, downloads, result, ts_in, ts_out, args, ret>>

\* main.py:142-264: the stages after the transcript is fetched
RunLaterStage ==
    /\ run.pc # "fetch_transcript"
    /\ RunStage

\* main.py:90-111: the payload of _record_history
HistoryRecord(status, error) == [status |-> status, error |-> error]

\* main.py:324-331: run_pipeline raised
MainFailed ==
    /\ run.pc = "failed"
    /\ args' = Append(args, HistoryRecord("failed", run.error))
    /\ run' = [run EXCEPT !.pc = "exit_1"]
    /\ UNCHANGED <<pc, preferred_langs, youtube_url, exc, calls, raw_segments, tracks,
                   track_idx, downloads, result, ts_in, ts_out, ret>>

\* main.py:333-345: run_pipeline returned
MainDone ==
    /\ run.pc = "returned"
    /\ args' = Append(args, HistoryRecord("success", ""))
    /\ run' = [run EXCEPT !.pc = "exit_0"]
    /\ UNCHANGED <<pc, preferred_langs, youtube_url, exc, calls, raw_segments, tracks,
                   track_idx, downloads, result, ts_in, ts_out, ret>>

NextRun ==
    \/ MainEnter
    \/ RunFetch
    \/ PrimaryRaises
    \/ PrimaryReturns
    \/ YtdlpExtractRaises
    \/ YtdlpExtractReturns
    \/ TrackAttempt
    \/ RunFetched
    \/ RunLaterStage
    \/ MainFailed
    \/ MainDone

SpecRun == Init /\ [][NextRun]_vars

\* the strategies called so far
Called == {calls[i][2] : i \in {j \in 1..Len(calls) : calls[j][1] = "call"}}

\* C26: within a run fetch_transcript holds no source URL, the generative
\* strategy is never entered nor called, and once the primary service has
\* raised and the scraped strategy has given nothing the run has failed
\* as soon as fetch_transcript is over.
C26_GeminiUnreachableInRun ==
    /\ youtube_url = None
    /\ pc \notin {"gemini", "gemini_upload"}
    /\ "gemini" \notin Called
    /\ (pc = "done" /\ "ytdlp" \in Called /\ result.kind # "return")
          => /\ run.pc \in {"fetch_transcript", "failed", "exit_1"}
             /\ result.kind = "raise"
             /\ run.pc # "fetch_transcript" => run.error = result.error

C26_Witness ==
    /\ run.pc = "failed"
    /\ run.error = Unavailable
    /\ calls = <<Ev("call", "primary"), Ev("raise", "primary"),
                 Ev("call", "ytdlp"), Ev("nothing", "ytdlp")>>

\* everything run_pipeline does, in the order of main.py:134-264
FullRun == <<"_build_paths", "extract_video_id">> \o Stages

BothTexts ==
    {<<"1", "0", "0", ":", "0", "0">>,
     <<"1", "2", ".", "7">>,
     <<"0", "1", ":", "0", "5">>,
     <<"1", ":", "0", "2", ":", "0", "3">>,
     <<"1", "0", "0", ":", "0", "0", ":", "0", "0">>}

ParseBoth ==
    /\ ret.tag = "none"
    /\ \E s \in SeqsUpTo(TsAlphabet, MaxTsLen) \cup BothTexts :
        /\ args' = s
        /\ ret' = [tag |-> "both",
                   strict |-> parse_timestamp_to_seconds(s),
                   lenient |-> _parse_timestamp_to_seconds(s)]
    /\ UNCHANGED <<pc, preferred_langs, youtube_url, exc, calls, raw_segments, tracks,
                   track_idx, downloads, result, ts_in, ts_out, run>>

NextBoth == ParseBoth

SpecBoth == Init /\ [][NextBoth]_vars

\* C27: for every string the strict codec accepts, the lenient codec
\* returns the seconds the strict codec returns.
C27_LenientAgreesWithStrict ==
    (ret.tag = "both" /\ ret.strict.tag = "ok") => ret.lenient = ret.strict

\* the colon shapes of at most two digits in the leading field
AgreeOnShortClocks ==
    (ret.tag = "both" /\ ret.strict.tag = "ok" /\ Strip(args) # <<>>
        /\ \A i \in 1..Len(Strip(args)) : Strip(args)[i] \in Digits \cup {":"}
        /\ Len(Split(Strip(args), <<":">>)[1]) <= 2)
      => ret.lenient = ret.strict

\* ---------------------------------------------------------------------
\* transcribe_video_audio_with_gemini step by step. args is the frame of
\* the call: where it stands, the calls it made to the outside (trace),
\* the name of the uploaded file ("" while there is none), whether the
\* try block of _transcribe_by_uploaded_audio raised, and the segments it
\* is about to return.
\* ---------------------------------------------------------------------
Frame(at, setup, trace, uri_segments, uploaded, raised, segments) ==
    [at |-> at, setup |-> setup, trace |-> trace, uri_segments |-> uri_segments,
     uploaded |-> uploaded, raised |-> raised, segments |-> segments]

\* audio_transcriber.py:26-37: the environment is read and the client built
TranscribeEnter ==
    /\ args = <<>>
    /\ ret.tag = "none"
    /\ \E setup \in GeminiSetups :
        /\ args' = Frame(IF setup = "ready" THEN "uri" ELSE "returned",
                         setup, <<>>, <<>>, "", FALSE, <<>>)
        /\ ret' = IF setup = "ready" THEN ret
                  ELSE IF setup = "client_raises" THEN Raise("ClientError")
                  ELSE Ok(<<>>)
    /\ UNCHANGED <<pc, preferred_langs, youtube_url, exc, calls, raw_segments, tracks,
                   track_idx, downloads, result, ts_in, ts_out, run>>

\* audio_transcriber.py:40-42 and 47-71: the URI attempt; its parse is
\* outside the try of _transcribe_by_uri
ByUri ==
    /\ args # <<>>
    /\ args.at = "uri"
    /\ \E generated \in Generated :
        LET segments == _transcribe_by_uri(generated) IN
        /\ args' = [args EXCEPT
                      !.trace = Append(@, "generate_content(uri)"),
                      !.uri_segments = IF segments.tag = "ok" THEN segments.val ELSE <<>>,
                      !.at = IF segments.tag = "ok" /\ segments.val = <<>>
                             THEN "download" ELSE "returned"]
        /\ ret' = IF segments.tag = "ok" /\ segments.val = <<>> THEN ret ELSE segments
    /\ UNCHANGED <<pc, preferred_langs, youtube_url, exc, calls, raw_segments, tracks,
                   track_idx, downloads, result, ts_in, ts_out, run>>

\* audio_transcriber.py:44 and 83-84: the audio is downloaded, or yt-dlp raises
DownloadAudio ==
    /\ args # <<>>
    /\ args.at = "download"
    /\ \E raises \in BOOLEAN :
        args' = [args EXCEPT !.trace = Append(@, "_download_audio_file"),
                             !.raised = raises,
                             !.at = IF raises THEN "finally" ELSE "upload"]
    /\ UNCHANGED <<pc, preferred_langs, youtube_url, exc, calls, raw_segments, tracks,
                   track_idx, downloads, result, ts_in, ts_out, run, ret>>

\* audio_transcriber.py:85: the upload returns the file with its name, or raises
UploadAudio ==
    /\ args # <<>>
    /\ args.at = "upload"
    /\ \E raises \in BOOLEAN :
        args' = [args EXCEPT !.trace = Append(@, "files.upload"),
                             !.raised = raises,
                             !.uploaded = IF raises THEN "" ELSE "files/1",
                             !.at = IF raises THEN "finally" ELSE "generate"]
    /\ UNCHANGED <<pc, preferred_langs, youtube_url, exc, calls, raw_segments, tracks,
                   track_idx, downloads, result, ts_in, ts_out, run, ret>>

\* audio_transcriber.py:86-94: generation and parse inside the try
GenerateFromUpload ==
    /\ args # <<>>
    /\ args.at = "generate"
    /\ \E generated \in Generated :
        args' = [args EXCEPT
                   !.trace = Append(@, "generate_content(upload)"),
                   !.raised = \/ generated.tag = "raise"
                              \/ _parse_transcribe_response(generated.val).tag = "raise",
                   !.segments = _transcribe_by_uploaded_audio(Ok("audio"), Ok("file"),
                                                              generated),
                   !.at = "finally"]
    /\ UNCHANGED <<pc, preferred_langs, youtube_url, exc, calls, raw_segments, tracks,
                   track_idx, downloads, result, ts_in, ts_out, run, ret>>

\* a clean-up that is skipped when the try block raised
DeleteAttempted_OnSuccess(uploaded, raised) == uploaded # "" /\ ~raised

\* audio_transcriber.py:95-96: the guard of the delete in the finally block
DeleteAttempted(uploaded, raised) == uploaded # ""

\* audio_transcriber.py:95-100: the finally block, whose delete may raise
\* and is then passed over, and the return
Finally ==
    /\ args # <<>>
    /\ args.at = "finally"
    /\ args' = [args EXCEPT
                  !.trace = IF DeleteAttempted(args.uploaded, args.raised)
                            THEN Append(@, "files.delete") ELSE @,
                  !.at = "returned"]
    /\ ret' = Ok(args.segments)
    /\ UNCHANGED <<pc, preferred_langs, youtube_url, exc, calls, raw_segments, tracks,
                   track_idx, downloads, result, ts_in, ts_out, run>>

NextTranscribe ==
    \/ TranscribeEnter
    \/ ByUri
    \/ DownloadAudio
    \/ UploadAudio
    \/ GenerateFromUpload
    \/ Finally

SpecTranscribe == Init /\ [][NextTranscribe]_vars

\* the calls of the upload attempt
UploadSteps ==
    {"_download_audio_file", "files.upload", "generate_content(upload)", "files.delete"}

Traced == {args.trace[i] : i \in 1..Len(args.trace)}

\* C29: the first call to the outside is the URI generation; a step of the
\* upload attempt is made only after a URI attempt that yielded no segments;
\* disabled or without an API key no call is made at all and the result is
\* empty; and a call that uploaded a file has returned only after a delete
\* as its last call, whether or not the try block raised.
C29_UriFirstUploadCleanedUp ==
    args # <<>> =>
        /\ args.trace # <<>> => args.trace[1] = "generate_content(uri)"
        /\ Traced \cap UploadSteps # {}
              => /\ args.uri_segments = <<>>
                 /\ Len(args.trace) >= 2
                 /\ \A i \in 2..Len(args.trace) : args.trace[i] \in UploadSteps
        /\ args.setup \in {"disabled", "no_api_key"}
              => /\ args.trace = <<>>
                 /\ ret = Ok(<<>>)
        /\ (args.at = "returned" /\ "files.upload" \in Traced /\ args.uploaded # "")
              => args.trace[Len(args.trace)] = "files.delete"
        /\ args.at = "returned" <=> ret.tag # "none"

C29_Witness ==
    /\ args # <<>>
    /\ args.at = "returned"
    /\ args.raised
    /\ ret = Ok(<<>>)
    /\ args.trace = <<"generate_content(uri)", "_download_audio_file", "files.upload",
                      "generate_content(upload)", "files.delete">>

====
